---- MODULE Spec2Model ----
(***************************************************************************)
(* A model of the function-binding code of the repository:                 *)
(*   - Function.prototype.myBind  ("Polyfill for bind method/index.js")    *)
(*   - the Function.prototype.bind polyfill of the accompanying README     *)
(* together with the part of the JavaScript object model both rest on:     *)
(* objects with a prototype link, functions with a "prototype" property,   *)
(* [[Call]] with an explicit receiver and [[Construct]] (new).             *)
(*                                                                         *)
(* The other examples of the repository follow, each with a state variable *)
(* of its own and specifications of its own; a specification leaves the    *)
(* variables of the other examples at rest.                                *)
(***************************************************************************)
EXTENDS Integers, Sequences, FiniteSets, TLC

VARIABLES
    funcs,     \* the function objects allocated so far (id = index)
    objs,      \* the plain objects allocated so far (id = index)
    last,      \* the outcome of the last top-level operation
    nbinds,    \* number of myBind / bind calls made so far
    npoly,     \* number of those that were calls of the README's bind
    nnews,     \* number of top-level new expressions evaluated so far
    born,      \* per function id: the function object as it was when created
    insts,     \* the objects the program obtained from its new expressions
    again,     \* the last call was of the same bound function as a call before it,
               \* with other trailing arguments
    ev,        \* the click being dispatched to the nested elements, and the console
    game,      \* the tic-tac-toe Game with its GameBoard, and the last call on it
    gen,       \* a generator object, its consumer and the console
    pg,        \* the paginated fetch: the async generator, its consumer, the timer
    tree,      \* the TreeNode objects, the traverseTree generator and its output
    pr,        \* promises, their reactions, the job queue, timers and handler calls
    bal,       \* the string given to isBalanced and what it returned
    cart,      \* a ShoppingCart, the array its caller holds and the last call on it
    pchain,    \* object and object2 of the prototype example, the console and the last statement
    emps,      \* the employees emp1, emp2, emp3, the statements run on them and what was logged
    fproto     \* the bind and myBind properties of Function.prototype and the scripts run so far

bindVars == <<funcs, objs, last, nbinds, npoly, nnews, born, insts, again>>

vars == <<funcs, objs, last, nbinds, npoly, nnews, born, insts, again, ev, game, gen, pg, tree, pr,
         bal, cart, pchain, emps, fproto>>

\* an operation of one example leaves the variables of the others alone
Rest(mine) ==
    /\ IF mine = "bind" THEN TRUE ELSE UNCHANGED bindVars
    /\ IF mine = "ev" THEN TRUE ELSE UNCHANGED ev
    /\ IF mine = "game" THEN TRUE ELSE UNCHANGED game
    /\ IF mine = "gen" THEN TRUE ELSE UNCHANGED gen
    /\ IF mine = "pg" THEN TRUE ELSE UNCHANGED pg
    /\ IF mine = "tree" THEN TRUE ELSE UNCHANGED tree
    /\ IF mine = "pr" THEN TRUE ELSE UNCHANGED pr
    /\ IF mine = "bal" THEN TRUE ELSE UNCHANGED bal
    /\ IF mine = "cart" THEN TRUE ELSE UNCHANGED cart
    /\ IF mine = "pchain" THEN TRUE ELSE UNCHANGED pchain
    /\ IF mine = "emps" THEN TRUE ELSE UNCHANGED emps
    /\ IF mine = "fproto" THEN TRUE ELSE UNCHANGED fproto

----------------------------------------------------------------------------
(* Bounds of the exploration.                                              *)

MaxBinds    == 2    \* myBind / bind calls per run
MaxPolyfill == 1    \* calls of the README's bind among them
MaxNews     == 1    \* top-level new expressions per run

----------------------------------------------------------------------------
(* JavaScript values.                                                      *)

Undef  == [t |-> "undef", v |-> 0]
Null   == [t |-> "null", v |-> 0]
NaN    == [t |-> "nan", v |-> 0]
Num(n) == [t |-> "num", v |-> n]
Obj(i) == [t |-> "obj", v |-> i]
Fun(i) == [t |-> "fun", v |-> i]

IsObj(x) == x.t = "obj"
IsFun(x) == x.t = "fun"

\* typeof x === 'function'
IsCallable(x) == IsFun(x)

----------------------------------------------------------------------------
(* The heap at program start.                                              *)

ObjectPrototype == Obj(1)    \* Object.prototype
GlobalObject    == Obj(2)    \* globalThis: the receiver of a sloppy-mode call without one
name            == Obj(3)    \* let name = {firstName: ..., lastName: ...}
receiver        == Obj(4)    \* {base: 10}

InitObjs ==
    << [proto |-> Null,            base |-> Undef],     \* Object.prototype
       [proto |-> ObjectPrototype, base |-> Undef],     \* globalThis
       [proto |-> ObjectPrototype, base |-> Undef],     \* name
       [proto |-> ObjectPrototype, base |-> Num(10)],   \* receiver
       [proto |-> ObjectPrototype, base |-> Num(5)] >>  \* f.prototype, with f.prototype.base = 5

\* The function that gets bound.  Like printNameAndHometown it reads a property
\* of this and its arguments; it returns the result instead of writing it to the
\* console: f(x, y) { return this.base + x + y }
f   == Fun(1)
log == Fun(2)   \* console.log: a built-in, it has no prototype property

InitFuncs ==
    << [kind |-> "sum",     prototype |-> Obj(5)],
       [kind |-> "builtin", prototype |-> Undef] >>

----------------------------------------------------------------------------
(* Inputs.                                                                 *)

BindReceivers == {name, receiver}
\* prefix arguments are odd and differ from one bind to the next, trailing
\* arguments are even: the origin of every argument shows in an argument list
Prefixes      == {<<>>, <<Num(2 * nbinds + 1)>>}
Trailings     == {<<>>, <<Num(2)>>}

\* what myBind / bind can be applied to: every function, and one object that is
\* not callable (Function.prototype.myBind.call(name, ...))
Targets == {Fun(i) : i \in {j \in 1..Len(funcs) : funcs[j].kind # "fNOP"}} \cup {name}

\* the rest array of myBind: no argument at all, or a receiver and a prefix
MyBindArgs == {<<>>} \cup {<<r>> \o a : r \in BindReceivers, a \in Prefixes}

----------------------------------------------------------------------------
(* The object model: property lookup, instanceof, receiver coercion.       *)

\* argv[i] of a JavaScript array (1-based here): undefined past the end
At(argv, i) == IF i \in 1..Len(argv) THEN argv[i] ELSE Undef

\* arr.slice(1)
Slice1(argv) == IF Len(argv) = 0 THEN <<>> ELSE Tail(argv)

\* the + of two numbers; with undefined on either side the result is NaN
Plus(a, b) == IF a.t = "num" /\ b.t = "num" THEN Num(a.v + b.v) ELSE NaN

\* o.base: the own property, or else the first one found along the prototype chain
RECURSIVE GetBase(_, _)
GetBase(O, o) ==
    IF ~IsObj(o) THEN Undef
    ELSE IF O[o.v].base # Undef THEN O[o.v].base
    ELSE GetBase(O, O[o.v].proto)

\* the objects an object delegates to, nearest first
RECURSIVE ProtoChain(_, _)
ProtoChain(O, o) ==
    IF ~IsObj(o) \/ ~IsObj(O[o.v].proto) THEN <<>>
    ELSE <<O[o.v].proto>> \o ProtoChain(O, O[o.v].proto)

InChain(O, o, p) == \E k \in 1..Len(ProtoChain(O, o)) : ProtoChain(O, o)[k] = p

\* o instanceof F, for an F whose prototype property is an object
InstanceOf(O, o, fn) == IsObj(fn.prototype) /\ InChain(O, o, fn.prototype)

\* the this of a sloppy-mode function called with receiver r
ThisOf(r) == IF r = Undef \/ r = Null THEN GlobalObject ELSE r

----------------------------------------------------------------------------
(* Function bodies.  A call yields the activations it caused, outermost    *)
(* first (frames: which function ran, with which receiver and arguments),  *)
(* the value returned, and whether a TypeError was thrown instead.         *)

Frame(id, thisArg, argv) == [fn |-> id, this |-> thisArg, args |-> argv]

Thrown == [frames |-> <<>>, ret |-> Undef, err |-> TRUE]

\* f(x, y) { return this.base + x + y }; console.log returns nothing
UserBody(O, kind, this, argv) ==
    IF kind = "sum"
    THEN Plus(Plus(GetBase(O, this), At(argv, 1)), At(argv, 2))
    ELSE Undef

\* a returned function that handed its own receiver on: obj.apply(this, ...)
MyBoundThisOwn(c, this) == this

\* myBind's returned function: the receiver it hands to obj.apply is args[0]
MyBoundThis(c, this) == At(c.args, 1)

\* a returned function that put the call's arguments first: [...args2, ...params]
MyBoundArgsSwapped(c, args2) == args2 \o c.params

\* myBind's returned function: [...params, ...args2]
MyBoundArgs(c, args2) == c.params \o args2

\* myBind's returned function has no return statement
MyBoundReturn(ret) == Undef

\* a returned function that collected the arguments in params itself:
\* params.push(...args2); obj.apply(args[0], params)
MyBoundAfterPush(c, args2) == [c EXCEPT !.params = c.params \o args2]

\* the closure of myBind's returned function once a call of it has returned:
\* the call reads args[0] and spreads params into a new array
MyBoundAfter(c, args2) == c

\* an fBound that always used the bound receiver: fToBind.apply(oThis, ...)
FBoundThisBound(O, c, this) == c.oThis

\* fBound: this instanceof fNOP ? this : oThis
FBoundThis(O, c, this) ==
    IF InstanceOf(O, this, funcs[c.fNOP.v]) THEN this ELSE c.oThis

\* fBound: aArgs.concat(Array.prototype.slice.call(arguments))
FBoundArgs(c, argv) == c.aArgs \o argv

\* fBound: return fToBind.apply(...)
FBoundReturn(ret) == ret

\* [[Call]]: fv called with receiver thisArg and arguments argv, on heap O.
\* Calling what is not a function (obj.apply of an object that has no apply)
\* throws a TypeError.  The apply of every function is Function.prototype.apply:
\* no function of the repository shadows or replaces it.
RECURSIVE Call(_, _, _, _), Apply(_, _, _, _, _)
Call(O, fv, thisArg, argv) ==
    IF ~IsCallable(fv) THEN Thrown
    ELSE Apply(O, fv.v, funcs[fv.v], thisArg, argv)

\* the body of the function object c, whose id is id
Apply(O, id, c, thisArg, argv) ==
      LET me == Frame(id, thisArg, argv)
      IN  CASE c.kind = "myBound" ->
                 LET r == Call(O, c.obj, MyBoundThis(c, ThisOf(thisArg)),
                               MyBoundArgs(c, argv))
                 IN  [frames |-> <<me>> \o r.frames,
                      ret    |-> IF r.err THEN Undef ELSE MyBoundReturn(r.ret),
                      err    |-> r.err]
            [] c.kind = "fBound" ->
                 LET r == Call(O, c.fToBind, FBoundThis(O, c, ThisOf(thisArg)),
                               FBoundArgs(c, argv))
                 IN  [frames |-> <<me>> \o r.frames,
                      ret    |-> IF r.err THEN Undef ELSE FBoundReturn(r.ret),
                      err    |-> r.err]
            [] c.kind = "fNOP" ->
                 [frames |-> <<me>>, ret |-> Undef, err |-> FALSE]
            [] OTHER ->
                 [frames |-> <<me>>,
                  ret    |-> UserBody(O, c.kind, ThisOf(thisArg), argv),
                  err    |-> FALSE]

\* new F creates an object that delegates to F.prototype, or to Object.prototype
\* when F.prototype is not an object
InstanceProto(c) == IF IsObj(c.prototype) THEN c.prototype ELSE ObjectPrototype

\* a built-in function such as console.log is not a constructor
IsConstructor(fv) == IsCallable(fv) /\ funcs[fv.v].kind # "builtin"

\* the value of a new expression: what the body returned if that is an object,
\* the new instance otherwise
NewValue(inst, ret) == IF IsObj(ret) \/ IsFun(ret) THEN ret ELSE inst

----------------------------------------------------------------------------
(* Click events on three nested elements                                   *)
(* ("Event Bubbling, Caputing aka Trikling in Javascript/index.js").       *)
(* Elements are numbered from the outermost: 1 grandparent, 2 parent,      *)
(* 3 child.  Each has one click listener, registered with a useCapture     *)
(* flag; stop tells whether the listener calls e.stopPropagation().        *)

Listener(capture, stop) == [capture |-> capture, stop |-> stop]

Label(e) ==
    CASE e = 1 -> "Grandparent Clicked"
      [] e = 2 -> "Parent Clicked"
      [] e = 3 -> "Child Clicked"

\* the seven groups of registrations of index.js, <<grandparent, parent, child>>
GroupBubbling  == <<Listener(FALSE, FALSE), Listener(FALSE, FALSE), Listener(FALSE, FALSE)>>
GroupCapturing == <<Listener(TRUE, FALSE), Listener(TRUE, FALSE), Listener(TRUE, FALSE)>>

\* a registration of the third group that left parent2 capturing as well
GroupMixedCaptureAllCapture ==
    <<Listener(TRUE, FALSE), Listener(TRUE, FALSE), Listener(TRUE, FALSE)>>

GroupMixedCapture == <<Listener(TRUE, FALSE), Listener(FALSE, FALSE), Listener(TRUE, FALSE)>>
GroupMixedBubble  == <<Listener(TRUE, FALSE), Listener(FALSE, FALSE), Listener(FALSE, FALSE)>>
GroupStopParent   == <<Listener(FALSE, FALSE), Listener(FALSE, TRUE), Listener(FALSE, FALSE)>>
GroupStopChild    == <<Listener(FALSE, FALSE), Listener(FALSE, FALSE), Listener(FALSE, TRUE)>>
GroupStopGrand    == <<Listener(TRUE, TRUE), Listener(TRUE, FALSE), Listener(TRUE, FALSE)>>

Groups == {GroupBubbling, GroupCapturing, GroupMixedCapture, GroupMixedBubble,
           GroupStopParent, GroupStopChild, GroupStopGrand}

\* every way of registering one listener per element, the seven groups among them
Registrations ==
    Groups \cup [1..3 -> {Listener(c, s) : c \in BOOLEAN, s \in BOOLEAN}]

\* A click on element t visits 2t - 1 places: the ancestors from the outermost
\* inwards (capturing), t itself (at target), the ancestors outwards (bubbling).
NumVisits(t) == 2 * t - 1

VisitElem(t, k) == IF k <= t THEN k ELSE 2 * t - k

VisitPhase(t, k) == IF k < t THEN "capture" ELSE IF k = t THEN "target" ELSE "bubble"

\* addEventListener('click', listener, useCapture): the phases the listener runs in
ListenerRuns(l, phase) ==
    \/ phase = "target"
    \/ phase = "capture" /\ l.capture
    \/ phase = "bubble" /\ ~l.capture

EvStart(cfg) == [cfg |-> cfg, target |-> 0, pos |-> 0, log |-> <<>>, stopped |-> FALSE]

EvInits == {EvStart(cfg) : cfg \in Registrations}

\* the user clicks element t
EvClick(t) ==
    /\ Rest("ev")
    /\ /\ ev.target = 0
       /\ ev' = [ev EXCEPT !.target = t]

\* a dispatch that goes on to the end of the path whatever a listener did
EvDoneIgnoringStop == ev.target # 0 /\ ev.pos = NumVisits(ev.target)

EvDone == ev.target # 0 /\ (ev.stopped \/ ev.pos = NumVisits(ev.target))

\* the event reaches the next place of its path; the listener there runs if it
\* was registered for the phase
EvVisit ==
    /\ Rest("ev")
    /\ /\ ev.target # 0
       /\ ~EvDone
       /\ LET k == ev.pos + 1
              e == VisitElem(ev.target, k)
              l == ev.cfg[e]
          IN  IF ListenerRuns(l, VisitPhase(ev.target, k))
              THEN ev' = [ev EXCEPT !.pos = k,
                                    !.log = Append(@, Label(e)),
                                    !.stopped = l.stop]
              ELSE ev' = [ev EXCEPT !.pos = k]

----------------------------------------------------------------------------
(* Binding: the state after construction and the top-level operations.              *)

Outcome(op, fv, thisArg, argv, r, inst) ==
    [op |-> op, fn |-> fv, this |-> thisArg, args |-> argv,
     ret |-> r.ret, err |-> r.err, frames |-> r.frames, inst |-> inst]


BindInit ==
    /\ funcs = InitFuncs
    /\ objs = InitObjs
    /\ born = InitFuncs
    /\ last = Outcome("none", Undef, Undef, <<>>,
                      [frames |-> <<>>, ret |-> Undef, err |-> FALSE], Undef)
    /\ nbinds = 0
    /\ npoly = 0
    /\ nnews = 0
    /\ insts = {}
    /\ again = FALSE

----------------------------------------------------------------------------
(* The tic-tac-toe classes of "ES6/Symbol.md": Player, GameBoard, Game.    *)
(* A cell holds "null", "X" or "O"; cell i of the code is board[i + 1].    *)

MaxMarks == 3     \* marks on the board in the explored games

NullCell == "null"

Symbols == {"X", "O"}

NumCells == 9     \* Array(9)

Indices == 0..(NumCells - 1)

EmptyBoard == [i \in 1..NumCells |-> NullCell]

AllBoards == [DOMAIN EmptyBoard -> Symbols \cup {NullCell}]

Cell(board, i) == board[i + 1]

\* this.players of a Game
Players == <<[name |-> "Player 1", symbol |-> "X"], [name |-> "Player 2", symbol |-> "O"]>>

\* an isCellEmpty that takes every cell for empty
isCellEmptyAlways(board, index) == TRUE

isCellEmpty(board, index) == Cell(board, index) = NullCell

WinningPositions ==
    << <<0, 1, 2>>, <<3, 4, 5>>, <<6, 7, 8>>,
       <<0, 3, 6>>, <<1, 4, 7>>, <<2, 5, 8>>,
       <<0, 4, 8>>, <<2, 4, 6>> >>

\* the for loop of checkWinner from the k-th entry of winningPositions on:
\* the symbol of the first complete line, "null" if the loop runs out
RECURSIVE WinnerFrom(_, _)
WinnerFrom(board, k) ==
    IF k > Len(WinningPositions)
    THEN NullCell
    ELSE LET a == WinningPositions[k][1]
             b == WinningPositions[k][2]
             c == WinningPositions[k][3]
         IN  IF /\ Cell(board, a) # NullCell
                /\ Cell(board, a) = Cell(board, b)
                /\ Cell(board, a) = Cell(board, c)
             THEN Cell(board, a)
             ELSE WinnerFrom(board, k + 1)

Includes(board, v) == \E i \in DOMAIN board : board[i] = v

\* a checkWinner that looks for a full board before it looks for a line
checkWinnerTieFirst(board) ==
    IF ~Includes(board, NullCell)
    THEN "tie"
    ELSE WinnerFrom(board, 1)

checkWinner(board) ==
    IF WinnerFrom(board, 1) # NullCell
    THEN WinnerFrom(board, 1)
    ELSE IF ~Includes(board, NullCell)
         THEN "tie"
         ELSE NullCell

NoCall == [op |-> "none", index |-> 0, symbol |-> NullCell, ret |-> "none", err |-> FALSE]

NewGame ==
    [board |-> EmptyBoard, currentPlayerIndex |-> 0, winner |-> NullCell,
     gameOver |-> FALSE, last |-> NoCall]

\* the own properties the constructor gives a Game and the methods of the class
GameProperties ==
    {"players", "board", "currentPlayerIndex", "winner", "gameOver",
     "switchTurn", "makeMove", "restartGame"}

\* this.currentPlayer: "undefined" unless a Game has such a property
currentPlayer(g) ==
    IF "currentPlayer" \in GameProperties
    THEN Players[g.currentPlayerIndex + 1]
    ELSE [name |-> "undefined", symbol |-> "undefined"]

IsUndefined(player) == player.name = "undefined"

switchTurn(g) == (g.currentPlayerIndex + 1) % Len(Players)

\* GameBoard.makeMove(index, symbol), called on game.board
BoardMakeMove(index, symbol) ==
    /\ Rest("game")
    /\ IF isCellEmpty(game.board, index)
       THEN game' = [game EXCEPT
                !.board[index + 1] = symbol,
                !.last = [op |-> "GameBoard.makeMove", index |-> index,
                          symbol |-> symbol, ret |-> "true", err |-> FALSE]]
       ELSE game' = [game EXCEPT
                !.last = [op |-> "GameBoard.makeMove", index |-> index,
                          symbol |-> symbol, ret |-> "false", err |-> FALSE]]

\* GameBoard.checkWinner(), called on game.board
BoardCheckWinner ==
    /\ Rest("game")
    /\ game' = [game EXCEPT
           !.last = [op |-> "GameBoard.checkWinner", index |-> 0, symbol |-> NullCell,
                     ret |-> checkWinner(game.board), err |-> FALSE]]

\* Game.makeMove(index).  The condition reads this.currentPlayer.symbol once
\* gameOver is found false; reading a property of undefined throws a TypeError.
GameMakeMove(index) ==
    /\ Rest("game")
    /\ LET called == [op |-> "Game.makeMove", index |-> index, symbol |-> NullCell,
                      ret |-> "none", err |-> FALSE]
           player == currentPlayer(game)
       IN  IF game.gameOver
           THEN game' = [game EXCEPT !.last = [called EXCEPT !.ret = "false"]]
           ELSE IF IsUndefined(player)
           THEN game' = [game EXCEPT !.last = [called EXCEPT !.err = TRUE]]
           ELSE IF ~isCellEmpty(game.board, index)
           THEN game' = [game EXCEPT
                    !.last = [called EXCEPT !.ret = "false", !.symbol = player.symbol]]
           ELSE LET board  == [game.board EXCEPT ![index + 1] = player.symbol]
                    winner == checkWinner(board)
                IN  game' = [game EXCEPT
                        !.board = board,
                        !.winner = winner,
                        !.gameOver = IF winner # NullCell THEN TRUE ELSE @,
                        !.currentPlayerIndex = IF winner # NullCell THEN @ ELSE switchTurn(game),
                        !.last = [called EXCEPT !.ret = "true", !.symbol = player.symbol]]

\* a restartGame that leaves winner as it is
RestartGameKeepsWinner ==
    /\ Rest("game")
    /\ game' = [game EXCEPT
           !.board = EmptyBoard,
           !.currentPlayerIndex = 0,
           !.gameOver = FALSE,
           !.last = [NoCall EXCEPT !.op = "Game.restartGame"]]

\* Game.restartGame()
RestartGame ==
    /\ Rest("game")
    /\ game' = [game EXCEPT
           !.board = EmptyBoard,
           !.currentPlayerIndex = 0,
           !.winner = NullCell,
           !.gameOver = FALSE,
           !.last = [NoCall EXCEPT !.op = "Game.restartGame"]]

Marks(board) == Cardinality({i \in DOMAIN board : board[i] # NullCell})

----------------------------------------------------------------------------
(* Generators ("ES6/Generators.md").  The body of a generator function is  *)
(* a sequence of console.log and yield statements; a generator object      *)
(* remembers the statement it is suspended before.                         *)

MaxBody == 3      \* statements of the generator bodies explored besides the examples

NumNextCalls == 6 \* the console.log(journey.next().value) lines of the first example

UndefinedValue == "undefined"

LogStmt(v) == [k |-> "log", v |-> v]

YieldStmt(v) == [k |-> "yield", v |-> v]

\* function* groceryShopping, first version
groceryShopping ==
    << LogStmt("Start walking"),
       YieldStmt("Still walking"),
       LogStmt("At the store!"),
       LogStmt("Going in with money"),
       YieldStmt("In the store - see you soon"),
       YieldStmt("I'm back with groceries"),
       LogStmt("Heading back home") >>

\* the version with the laundry step, the new yield left out
groceryShoppingWithoutLaundry ==
    << LogStmt("Start walking"),
       YieldStmt("Still walking"),
       LogStmt("At the store!"),
       LogStmt("Going in with money"),
       YieldStmt("In the store - see you soon"),
       YieldStmt("I'm back with groceries"),
       LogStmt("Heading back home") >>

\* function* groceryShopping with the laundry step
groceryShoppingLaundry ==
    << LogStmt("Start walking"),
       YieldStmt("Still walking"),
       LogStmt("At the store!"),
       LogStmt("Going in with money"),
       YieldStmt("In the store - see you soon"),
       YieldStmt("Stuff from laundry"),
       YieldStmt("I'm back with groceries"),
       LogStmt("Heading back home") >>

\* other bodies of the same shape
GenBodies ==
    {groceryShopping, groceryShoppingLaundry}
        \cup UNION {[1..n -> {LogStmt("walk"), YieldStmt("pause")}] : n \in 0..MaxBody}

\* the consumers of the examples: explicit next() calls, for...of
GenConsumers == {"next", "for...of"}

\* generator.next(): the body runs from statement pc to the next yield or to its
\* end; logs are what it printed on the way
RECURSIVE Resume(_, _)
Resume(body, pc) ==
    IF pc > Len(body)
    THEN [logs |-> <<>>, pc |-> pc, done |-> TRUE, value |-> UndefinedValue]
    ELSE IF body[pc].k = "yield"
    THEN [logs |-> <<>>, pc |-> pc + 1, done |-> FALSE, value |-> body[pc].v]
    ELSE LET r == Resume(body, pc + 1)
         IN  [r EXCEPT !.logs = <<body[pc].v>> \o @]

ByBody(v) == [by |-> "body", v |-> v]

ByConsumer(v) == [by |-> "consumer", v |-> v]

RECURSIVE ByBodyAll(_)
ByBodyAll(logs) ==
    IF logs = <<>> THEN <<>> ELSE <<ByBody(Head(logs))>> \o ByBodyAll(Tail(logs))

NoValue == [has |-> FALSE, v |-> UndefinedValue]

\* let journey = groceryShopping(): nothing of the body has run
GenStart(body, consumer) ==
    [body |-> body, consumer |-> consumer, pc |-> 1, done |-> FALSE,
     pending |-> NoValue, calls |-> 0, returned |-> <<>>, console |-> <<>>,
     finished |-> FALSE]

GenInits == {GenStart(body, consumer) : body \in GenBodies, consumer \in GenConsumers}

\* the consumer calls next(): one of the six explicit calls, or the call for...of
\* makes before each turn of the loop, which ends the loop on done
GenNext ==
    /\ Rest("gen")
    /\ /\ ~gen.finished
       /\ ~gen.pending.has
       /\ gen.consumer = "next" => gen.calls < NumNextCalls
       /\ LET r == Resume(gen.body, gen.pc)
          IN  gen' = [gen EXCEPT
                  !.pc = r.pc,
                  !.done = r.done,
                  !.calls = @ + 1,
                  !.returned = Append(@, r.value),
                  !.console = @ \o ByBodyAll(r.logs),
                  !.pending = IF gen.consumer = "for...of" /\ r.done
                              THEN NoValue
                              ELSE [has |-> TRUE, v |-> r.value],
                  !.finished = gen.consumer = "for...of" /\ r.done]

\* console.log(journey.next().value), or console.log(step) in the loop body
GenLog ==
    /\ Rest("gen")
    /\ /\ gen.pending.has
       /\ gen' = [gen EXCEPT
              !.console = Append(@, ByConsumer(gen.pending.v)),
              !.pending = NoValue,
              !.finished = gen.consumer = "next" /\ gen.calls = NumNextCalls]

----------------------------------------------------------------------------
(* Paginated fetching with an async generator ("ES6/Generators.md").       *)
(* `item${k}` is written Item(k).                                          *)

MaxPages == 4     \* pages the mocked API is given in the explored runs

NumPages == 3     \* hasMore: pageNumber < 3

Item(k) == [item |-> k]

\* hasMore of a page that stops one page early
HasMoreOffByOne(pageNumber, pages) == pageNumber + 1 < pages

\* hasMore: pageNumber < 3, for an API of `pages` pages
HasMore(pageNumber, pages) == pageNumber < pages

\* what fetchPage(pageNumber) resolves with
Page(pageNumber, pages) ==
    [page    |-> pageNumber,
     data    |-> <<Item(pageNumber * 1), Item(pageNumber * 2), Item(pageNumber * 3)>>,
     hasMore |-> HasMore(pageNumber, pages)]

NoPage == [page |-> 0, data |-> <<>>, hasMore |-> FALSE]

\* const dataGenerator = fetchPaginatedData(): nothing of the body has run
PgStart(pages) ==
    [pages |-> pages, pageNumber |-> 1, hasMore |-> TRUE, pc |-> "while",
     result |-> NoPage, idx |-> 0, requests |-> <<>>, console |-> <<>>]

PgInits == {PgStart(pages) : pages \in 1..MaxPages}

\* the loop asks for the next item and the generator is at while (hasMore):
\* it calls fetchPage(pageNumber) and awaits, or returns and the loop ends
PgWhile ==
    /\ Rest("pg")
    /\ /\ pg.pc = "while"
       /\ IF pg.hasMore
          THEN pg' = [pg EXCEPT !.pc = "timer", !.requests = Append(@, pg.pageNumber)]
          ELSE pg' = [pg EXCEPT !.pc = "done"]

\* the setTimeout callback of fetchPage resolves the promise
PgTimeout ==
    /\ Rest("pg")
    /\ /\ pg.pc = "timer"
       /\ pg' = [pg EXCEPT !.pc = "await", !.result = Page(pg.pageNumber, pg.pages)]

\* the await is over: yield* result.data starts
PgAwaited ==
    /\ Rest("pg")
    /\ /\ pg.pc = "await"
       /\ pg' = [pg EXCEPT !.pc = "yield", !.idx = 1]

\* yield* hands the next item of the page to the loop; after the last one the
\* body goes on with hasMore = result.hasMore; pageNumber++
PgYield ==
    /\ Rest("pg")
    /\ /\ pg.pc = "yield"
       /\ IF pg.idx <= Len(pg.result.data)
          THEN pg' = [pg EXCEPT !.pc = "item"]
          ELSE pg' = [pg EXCEPT !.pc = "while",
                                !.hasMore = pg.result.hasMore,
                                !.pageNumber = @ + 1]

\* the body of for await: console.log(item); then the loop asks for the next
PgLog ==
    /\ Rest("pg")
    /\ /\ pg.pc = "item"
       /\ pg' = [pg EXCEPT !.pc = "yield",
                           !.console = Append(@, pg.result.data[pg.idx]),
                           !.idx = @ + 1]

----------------------------------------------------------------------------
(* The recursive generator over a tree ("ES6/Generators.md").  TreeNode    *)
(* objects are numbered in the order of their construction; nodes[n] holds *)
(* the value and the children array of node n.                             *)

MaxNodes == 4     \* TreeNode objects constructed in the explored programs

TreeNode(value) == [value |-> value, children |-> <<>>]

\* nothing constructed, no traversal started
NoTree == [nodes |-> <<>>, stack |-> <<>>, out |-> <<>>, phase |-> "build"]

\* the sample tree: root 1 with children 2 and 3, 4 under 2, 5 under 3
SampleTree ==
    [NoTree EXCEPT !.nodes =
        << [value |-> 1, children |-> <<2, 3>>],
           [value |-> 2, children |-> <<4>>],
           [value |-> 3, children |-> <<5>>],
           [value |-> 4, children |-> <<>>],
           [value |-> 5, children |-> <<>>] >>]

IsChild(nodes, p, c) == \E i \in DOMAIN nodes[p].children : nodes[p].children[i] = c

HasParent(nodes, c) == \E p \in DOMAIN nodes : IsChild(nodes, p, c)

\* the nodes reachable from n through children arrays, n included
RECURSIVE Subtree(_, _)
Subtree(nodes, n) ==
    {n} \cup UNION {Subtree(nodes, nodes[n].children[i]) : i \in DOMAIN nodes[n].children}

\* new TreeNode(value), with the next number as value as in the sample
TreeNew ==
    /\ Rest("tree")
    /\ /\ tree.phase = "build"
       /\ Len(tree.nodes) < MaxNodes
       /\ tree' = [tree EXCEPT !.nodes = Append(@, TreeNode(Len(tree.nodes) + 1))]

\* parent.addChild(child), for a child that is in no tree yet and does not hold
\* parent in its own subtree: what is built stays a tree
TreeAddChild(parent, child) ==
    /\ Rest("tree")
    /\ /\ tree.phase = "build"
       /\ ~HasParent(tree.nodes, child)
       /\ parent \notin Subtree(tree.nodes, child)
       /\ tree' = [tree EXCEPT !.nodes[parent].children = Append(@, child)]

GenFrame(node, pc) == [node |-> node, pc |-> pc]

\* a traverseTree that yields a node after its children
RECURSIVE TreeResumePostOrder(_, _)
TreeResumePostOrder(nodes, stack) ==
    IF stack = <<>>
    THEN [stack |-> stack, done |-> TRUE, node |-> 0]
    ELSE LET top  == stack[Len(stack)]
             rest == SubSeq(stack, 1, Len(stack) - 1)
         IN  IF top.pc < Len(nodes[top.node].children)
             THEN TreeResumePostOrder(nodes,
                      rest \o <<GenFrame(top.node, top.pc + 1),
                                GenFrame(nodes[top.node].children[top.pc + 1], 0)>>)
             ELSE [stack |-> rest, done |-> FALSE, node |-> top.node]

\* next() on traverseTree: the innermost generator runs on.  pc = 0: it is at
\* yield node.value; pc = k: the for loop is before the k-th child, for which
\* yield* starts a generator of its own; past the last child the generator
\* returns to the one that delegated to it.
RECURSIVE TreeResume(_, _)
TreeResume(nodes, stack) ==
    IF stack = <<>>
    THEN [stack |-> stack, done |-> TRUE, node |-> 0]
    ELSE LET top  == stack[Len(stack)]
             rest == SubSeq(stack, 1, Len(stack) - 1)
         IN  IF top.pc = 0
             THEN [stack |-> rest \o <<GenFrame(top.node, 1)>>, done |-> FALSE,
                   node |-> top.node]
             ELSE IF top.pc <= Len(nodes[top.node].children)
             THEN TreeResume(nodes,
                      rest \o <<GenFrame(top.node, top.pc + 1),
                                GenFrame(nodes[top.node].children[top.pc], 0)>>)
             ELSE TreeResume(nodes, rest)

\* const treeIterator = traverseTree(root)
TreeTraverse(root) ==
    /\ Rest("tree")
    /\ /\ tree.phase = "build"
       /\ ~HasParent(tree.nodes, root)
       /\ tree' = [tree EXCEPT !.phase = "traverse", !.stack = <<GenFrame(root, 0)>>]

\* one turn of for (let value of treeIterator) { console.log(value) }
TreeNext ==
    /\ Rest("tree")
    /\ /\ tree.phase = "traverse"
       /\ LET r == TreeResume(tree.nodes, tree.stack)
          IN  IF r.done
              THEN tree' = [tree EXCEPT !.phase = "done", !.stack = r.stack]
              ELSE tree' = [tree EXCEPT
                       !.stack = r.stack,
                       !.out = Append(@, [node |-> r.node, value |-> tree.nodes[r.node].value])]

----------------------------------------------------------------------------
(* The promise chain of "ES6/Promise and Fetch.md":                        *)
(*   fetchData().then(processData).then(displayResult).catch(handleError)  *)
(* with the promises, reactions, promise jobs and timers it rests on.      *)
(* A value is [t, v, n]: a string, an Error with its message, the string   *)
(* `Processed: ${v}`, undefined, or promise number n.                      *)

MaxChains == 2       \* times the chain statement is run

FetchDelay == 2000   \* setTimeout(..., 2000) of fetchData

ProcessDelay == 1500 \* setTimeout(..., 1500) of processData

\* the clock moves in steps that land on every delay
ClockStep == FetchDelay - ProcessDelay

Str(v) == [t |-> "string", v |-> v, n |-> 0]

Err(message) == [t |-> "Error", v |-> message, n |-> 0]

Processed(data) == [t |-> "Processed: ", v |-> data.v, n |-> 0]

UndefinedResult == [t |-> "undefined", v |-> "", n |-> 0]

PromiseRef(n) == [t |-> "promise", v |-> "", n |-> n]

PrStart ==
    [proms |-> <<>>, reactions |-> <<>>, jobs |-> <<>>, timers |-> <<>>,
     chains |-> <<>>, calls |-> <<>>, console |-> <<>>]

\* new Promise(...): pending
NewPromise(S) ==
    [S EXCEPT !.proms = Append(@, [state |-> "pending", value |-> UndefinedResult])]

JobOf(r, state, value) ==
    [kind |-> r.kind, handler |-> r.handler, target |-> r.target, chain |-> r.chain,
     state |-> state, value |-> value]

\* promise p is fulfilled or rejected: one job for each reaction waiting on it
Settle(S, p, state, value) ==
    LET rs == SelectSeq(S.reactions, LAMBDA r : r.on = p)
    IN  [S EXCEPT
            !.proms[p] = [state |-> state, value |-> value],
            !.reactions = SelectSeq(@, LAMBDA r : r.on # p),
            !.jobs = @ \o [i \in 1..Len(rs) |-> JobOf(rs[i], state, value)]]

\* then / catch on promise r.on: wait for it, or a job at once if it is settled
AddReaction(S, r) ==
    IF S.proms[r.on].state = "pending"
    THEN [S EXCEPT !.reactions = Append(@, r)]
    ELSE [S EXCEPT !.jobs = Append(@, JobOf(r, S.proms[r.on].state, S.proms[r.on].value))]

\* resolve(result): a promise is followed (by a job), any other value fulfils
Resolve(S, target, result, chain) ==
    IF result.t = "promise"
    THEN [S EXCEPT !.jobs = Append(@,
             [kind |-> "thenable", handler |-> "none", target |-> target,
              chain |-> chain, state |-> "fulfilled", value |-> result])]
    ELSE Settle(S, target, "fulfilled", result)

Reaction(on, kind, handler, target, chain) ==
    [on |-> on, kind |-> kind, handler |-> handler, target |-> target, chain |-> chain]

\* a then that runs its callback whatever the promise settled as
HandlesAlways(kind, state) ==
    \/ kind = "then"
    \/ kind = "catch" /\ state = "rejected"

\* .then(f) runs f on fulfilment, .catch(f) on rejection; otherwise the promise
\* they return settles as the one they were called on
Handles(kind, state) ==
    \/ kind = "then" /\ state = "fulfilled"
    \/ kind = "catch" /\ state = "rejected"

Called(fn, arg, chain, ret) == [fn |-> fn, arg |-> arg, chain |-> chain, ret |-> ret]

\* processData(data): a new promise and a timer that resolves it
processData(S, j) ==
    LET S1 == NewPromise(S)
        q  == Len(S1.proms)
        S2 == [S1 EXCEPT
                  !.timers = Append(@, [kind |-> "processData", left |-> ProcessDelay,
                                        prom |-> q, chain |-> j.chain, arg |-> j.value]),
                  !.calls = Append(@, Called("processData", j.value, j.chain, q))]
    IN  Resolve(S2, j.target, PromiseRef(q), j.chain)

\* displayResult(result): console.log(result)
displayResult(S, j) ==
    LET S1 == [S EXCEPT
                  !.calls = Append(@, Called("displayResult", j.value, j.chain, 0)),
                  !.console = Append(@, <<j.value>>)]
    IN  Resolve(S1, j.target, UndefinedResult, j.chain)

\* handleError(error): console.error("Error:", error.message)
handleError(S, j) ==
    LET S1 == [S EXCEPT
                  !.calls = Append(@, Called("handleError", j.value, j.chain, 0)),
                  !.console = Append(@, <<Str("Error:"), Str(j.value.v)>>)]
    IN  Resolve(S1, j.target, UndefinedResult, j.chain)

\* a promise job
RunJob(S, j) ==
    CASE j.kind = "thenable" ->
             AddReaction(S, Reaction(j.value.n, "adopt", "none", j.target, j.chain))
      [] j.kind = "adopt" ->
             Settle(S, j.target, j.state, j.value)
      [] OTHER ->
             IF Handles(j.kind, j.state)
             THEN CASE j.handler = "processData"   -> processData(S, j)
                    [] j.handler = "displayResult" -> displayResult(S, j)
                    [] j.handler = "handleError"   -> handleError(S, j)
             ELSE Settle(S, j.target, j.state, j.value)

\* the statement fetchData().then(...).then(...).catch(...); success is the
\* flag of fetchData ("Change to false to simulate rejection")
PrChain(success) ==
    /\ Rest("pr")
    /\ /\ Len(pr.chains) < MaxChains
       /\ pr.jobs = <<>>
       /\ LET c  == Len(pr.chains) + 1
              p1 == Len(pr.proms) + 1
              S1 == NewPromise(NewPromise(NewPromise(NewPromise(pr))))
          IN  pr' = [S1 EXCEPT
                  !.timers = Append(@, [kind |-> "fetchData", left |-> FetchDelay,
                                        prom |-> p1, chain |-> c, arg |-> UndefinedResult]),
                  !.reactions = @ \o
                      << Reaction(p1, "then", "processData", p1 + 1, c),
                         Reaction(p1 + 1, "then", "displayResult", p1 + 2, c),
                         Reaction(p1 + 2, "catch", "handleError", p1 + 3, c) >>,
                  !.chains = Append(@, [success |-> success, fetched |-> p1,
                                        last |-> p1 + 3])]

Due(S) == {i \in DOMAIN S.timers : S.timers[i].left = 0}

\* time passes while nothing is ready to run
PrTick ==
    /\ Rest("pr")
    /\ /\ pr.jobs = <<>>
       /\ pr.timers # <<>>
       /\ Due(pr) = {}
       /\ pr' = [pr EXCEPT
              !.timers = [i \in DOMAIN @ |-> [@[i] EXCEPT !.left = @ - ClockStep]]]

\* the callback of the first timer that is due
PrTimeout ==
    /\ Rest("pr")
    /\ /\ pr.jobs = <<>>
       /\ Due(pr) # {}
       /\ LET i  == CHOOSE i \in Due(pr) : \A k \in Due(pr) : i <= k
              t  == pr.timers[i]
              S1 == [pr EXCEPT !.timers =
                        SubSeq(@, 1, i - 1) \o SubSeq(@, i + 1, Len(@))]
          IN  IF t.kind = "fetchData"
              THEN IF pr.chains[t.chain].success
                   THEN pr' = Resolve(S1, t.prom, Str("Data fetched successfully."), t.chain)
                   ELSE pr' = Settle(S1, t.prom, "rejected", Err("Failed to fetch data."))
              ELSE pr' = Resolve(S1, t.prom, Processed(t.arg), t.chain)

\* the oldest promise job runs
PrJob ==
    /\ Rest("pr")
    /\ /\ pr.jobs # <<>>
       /\ pr' = RunJob([pr EXCEPT !.jobs = Tail(@)], Head(pr.jobs))

----------------------------------------------------------------------------
(* isBalanced ("unnamed/part_000"): a string is the sequence of its        *)
(* characters, as str.split('') makes it.                                  *)

MaxLen == 6       \* length of the strings given to isBalanced

Chars == {"(", ")", "a"}

Strings == UNION {[1..n -> Chars] : n \in 0..MaxLen}

\* a callback without the test that keeps a negative accumulator
StepNoGuard(accumulator, char) ==
    IF char = "(" THEN accumulator + 1
    ELSE IF char = ")" THEN accumulator - 1
    ELSE accumulator

\* the callback given to reduce
Step(accumulator, char) ==
    IF accumulator < 0 THEN accumulator
    ELSE IF char = "(" THEN accumulator + 1
    ELSE IF char = ")" THEN accumulator - 1
    ELSE accumulator

\* array.reduce(callback, initial), from the left
RECURSIVE Reduce(_, _)
Reduce(array, accumulator) ==
    IF array = <<>>
    THEN accumulator
    ELSE Reduce(Tail(array), Step(accumulator, Head(array)))

\* !n for a number n
Not(n) == n = 0

isBalanced(str) == Not(Reduce(str, 0))

BalStart(str) == [str |-> str, called |-> FALSE, ret |-> FALSE]

BalInits == {BalStart(str) : str \in Strings}

\* console.log(isBalanced(str))
BalCall ==
    /\ Rest("bal")
    /\ /\ ~bal.called
       /\ bal' = [bal EXCEPT !.called = TRUE, !.ret = isBalanced(bal.str)]

----------------------------------------------------------------------------
(* ShoppingCart (src/unnamed/part_005): a cart array and a running total   *)
(* closed over by addItem, removeItem, getTotalCost and getCartItems.      *)

MaxCalls == 4     \* calls made on the cart and on the array it handed out

\* A number of the program is a double that is a multiple of 2^-56, held exactly
\* as a sign and a magnitude; the magnitude is the count of 2^-56 in binary,
\* lowest bit first, without leading zeros.  An operation rounds its exact
\* result to Precision significant bits, ties to even, as the language's +, -
\* and * do; the values met here are far from the exponent range's ends.

Precision == 53   \* significant bits of a double

Bit(bits, i) == IF i <= Len(bits) THEN bits[i] ELSE 0

\* bits lo..hi of a + sign * b, given the carry (or borrow) into bit lo, and the
\* carry (or borrow) out of bit hi
RECURSIVE AddRange(_, _, _, _, _, _)
AddRange(a, b, sign, carry, lo, hi) ==
    IF lo = hi
    THEN LET t == Bit(a, lo) + sign * (Bit(b, lo) + carry)
         IN  [bits |-> <<t % 2>>, carry |-> IF t < 0 \/ t > 1 THEN 1 ELSE 0]
    ELSE LET mid  == (lo + hi) \div 2
             low  == AddRange(a, b, sign, carry, lo, mid)
             high == AddRange(a, b, sign, low.carry, mid + 1, hi)
         IN  [bits |-> low.bits \o high.bits, carry |-> high.carry]

\* the bits without leading zeros
Trim(bits) ==
    LET ones == {i \in 1..Len(bits) : bits[i] = 1}
    IN  IF ones = {} THEN <<>>
        ELSE SubSeq(bits, 1, CHOOSE i \in ones : \A j \in ones : j <= i)

\* a + b + carry
AddBits(a, b, carry) ==
    LET n == IF Len(a) > Len(b) THEN Len(a) ELSE Len(b)
        r == AddRange(a, b, 1, carry, 1, n)
    IN  IF n = 0 THEN (IF carry = 1 THEN <<1>> ELSE <<>>)
        ELSE IF r.carry = 1 THEN Append(r.bits, 1) ELSE r.bits

\* a - b for a >= b
SubBits(a, b) == IF a = <<>> THEN <<>> ELSE Trim(AddRange(a, b, -1, 0, 1, Len(a)).bits)

LessBits(a, b) ==
    IF Len(a) # Len(b)
    THEN Len(a) < Len(b)
    ELSE \E i \in 1..Len(a) :
            /\ a[i] < b[i]
            /\ \A j \in (i + 1)..Len(a) : a[j] = b[j]

\* the nearest magnitude of Precision significant bits, ties to even
RoundBits(a) ==
    IF Len(a) <= Precision
    THEN a
    ELSE LET k  == Len(a) - Precision
             q  == SubSeq(a, k + 1, Len(a))
             up == /\ a[k] = 1
                   /\ (q[1] = 1 \/ \E i \in 1..(k - 1) : a[i] = 1)
         IN  [i \in 1..k |-> 0] \o (IF up THEN AddBits(q, <<1>>, 0) ELSE q)

Number(neg, mag) == [neg |-> neg /\ mag # <<>>, mag |-> mag]

Zero == Number(FALSE, <<>>)

\* a + b
NumAdd(a, b) ==
    IF a.neg = b.neg
    THEN Number(a.neg, RoundBits(AddBits(a.mag, b.mag, 0)))
    ELSE IF LessBits(a.mag, b.mag)
    THEN Number(b.neg, RoundBits(SubBits(b.mag, a.mag)))
    ELSE Number(a.neg, RoundBits(SubBits(a.mag, b.mag)))

\* a - b
NumSub(a, b) == NumAdd(a, Number(~b.neg, b.mag))

\* a * (bits lo..hi of b) / 2^(lo-1), in binary
RECURSIVE MulRange(_, _, _, _)
MulRange(a, b, lo, hi) ==
    IF lo = hi
    THEN IF b[lo] = 1 THEN a ELSE <<>>
    ELSE LET mid == (lo + hi) \div 2
         IN  AddBits(MulRange(a, b, lo, mid),
                     [i \in 1..(mid + 1 - lo) |-> 0] \o MulRange(a, b, mid + 1, hi), 0)

\* a * b: the product of two counts of 2^-56 counts 2^-112, and 56 is 4 * 14
NumMul(a, b) ==
    IF a.mag = <<>> \/ b.mag = <<>> THEN Zero
    ELSE LET exact == RoundBits(Trim(MulRange(a.mag, b.mag, 1, Len(b.mag))))
         IN  Number(a.neg # b.neg, SubSeq(exact, 4 * 14 + 1, Len(exact)))

\* the bits of a hexadecimal digit, lowest first
HexBits(d) == <<d % 2, (d \div 2) % 2, (d \div 4) % 2, (d \div 8) % 2>>

\* the magnitude written as hexadecimal digits, highest first
RECURSIVE FromHex(_)
FromHex(digits) ==
    IF digits = <<>> THEN <<>>
    ELSE FromHex(Tail(digits)) \o HexBits(Head(digits))

\* the number written 0x<digits> * 2^-56
Hex(digits) == Number(FALSE, Trim(FromHex(digits)))

One == Hex(<<1, 0, 0, 0, 0, 0, 0, 0, 0, 0, 0, 0, 0, 0, 0>>)     \* 1
Two == Hex(<<2, 0, 0, 0, 0, 0, 0, 0, 0, 0, 0, 0, 0, 0, 0>>)     \* 2
Tenth == Hex(<<1, 9, 9, 9, 9, 9, 9, 9, 9, 9, 9, 9, 9, 10>>)     \* 0.1

\* the items callers add: { name: "Apple", price: 1 } and { name: "Banana",
\* price: 2 } of the example, and an Apple priced 0.1
CartItems == {[name |-> "Apple", price |-> One], [name |-> "Banana", price |-> Two],
              [name |-> "Apple", price |-> Tenth]}

CartNames == {it.name : it \in CartItems}

\* new ShoppingCart(): arrays[1] is the closure's cart; the caller holds the
\* array with index held (0: none yet); index is what findIndex gave
ShoppingCart ==
    [arrays |-> << <<>> >>, totalCost |-> Zero, held |-> 0,
     last |-> [op |-> "new", index |-> -1], calls |-> 0]

\* cart.push(item); totalCost += item.price
addItem(c, item) ==
    [c EXCEPT !.arrays[1] = Append(@, item), !.totalCost = NumAdd(@, item.price)]

\* cart.findLastIndex(item => item.name === itemName)
findLastIndex(arr, itemName) ==
    IF \E i \in 1..Len(arr) : arr[i].name = itemName
    THEN (CHOOSE i \in 1..Len(arr) :
             /\ arr[i].name = itemName
             /\ \A j \in (i + 1)..Len(arr) : arr[j].name # itemName) - 1
    ELSE -1

\* cart.findIndex(item => item.name === itemName), counted from 0
findIndex(arr, itemName) ==
    IF \E i \in 1..Len(arr) : arr[i].name = itemName
    THEN (CHOOSE i \in 1..Len(arr) :
             /\ arr[i].name = itemName
             /\ \A j \in 1..(i - 1) : arr[j].name # itemName) - 1
    ELSE -1

\* arr.splice(index, 1)
splice(arr, index) == SubSeq(arr, 1, index) \o SubSeq(arr, index + 2, Len(arr))

removeItem(c, itemName) ==
    LET index == findIndex(c.arrays[1], itemName)
    IN  IF index # -1
        THEN [c EXCEPT !.totalCost = NumSub(@, c.arrays[1][index + 1].price),
                       !.arrays[1] = splice(@, index),
                       !.last.index = index]
        ELSE [c EXCEPT !.last.index = index]

getTotalCost(c) == c.totalCost

\* return cart;
getCartItemsItself(c) == [c EXCEPT !.held = 1]

\* return cart.slice(): a new array of the same items, which the caller holds
getCartItems(c) == [c EXCEPT !.arrays = <<c.arrays[1], c.arrays[1]>>, !.held = 2]

\* a call was made
CartCalled(c, op) == [c EXCEPT !.last.op = op, !.calls = @ + 1]

CartAddItem ==
    /\ Rest("cart")
    /\ cart.calls < MaxCalls
    /\ \E item \in CartItems :
          cart' = CartCalled(addItem([cart EXCEPT !.last.index = -1], item), "addItem")

CartRemoveItem ==
    /\ Rest("cart")
    /\ cart.calls < MaxCalls
    /\ \E itemName \in CartNames : cart' = CartCalled(removeItem(cart, itemName), "removeItem")

CartGetTotalCost ==
    /\ Rest("cart")
    /\ cart.calls < MaxCalls
    /\ cart' = CartCalled([cart EXCEPT !.last.index = -1], "getTotalCost")

CartGetCartItems ==
    /\ Rest("cart")
    /\ cart.calls < MaxCalls
    /\ cart' = CartCalled(getCartItems([cart EXCEPT !.last.index = -1]), "getCartItems")

\* what a caller does to the array it was given: push, pop, reverse
CartCallerPush ==
    /\ Rest("cart")
    /\ cart.calls < MaxCalls /\ cart.held # 0
    /\ \E item \in CartItems :
          cart' = CartCalled([cart EXCEPT !.arrays[cart.held] = Append(@, item),
                                       !.last.index = -1], "push")

CartCallerPop ==
    /\ Rest("cart")
    /\ cart.calls < MaxCalls /\ cart.held # 0
    /\ cart' = CartCalled([cart EXCEPT !.arrays[cart.held] = SubSeq(@, 1, Len(@) - 1),
                                    !.last.index = -1], "pop")

CartCallerReverse ==
    /\ Rest("cart")
    /\ cart.calls < MaxCalls /\ cart.held # 0
    /\ cart' = CartCalled([cart EXCEPT !.arrays[cart.held] =
                                        [i \in 1..Len(@) |-> @[Len(@) + 1 - i]],
                                    !.last.index = -1], "reverse")

----------------------------------------------------------------------------
(* Prototype chain (src/Function Currying/Readme.md): object, object2 and  *)
(* the assignment object2.__proto__ = object.                              *)

MaxLines == 3     \* console.log statements run besides the assignment

Text(s) == [t |-> "string", v |-> s]

Undefined == [t |-> "undefined", v |-> ""]

Method(s) == [t |-> "function", v |-> s]    \* the function written at property s

\* let object = { name: "Kamarali", city: "Pune", getIntro: function () {...} }
object ==
    [own |-> [k \in {"name", "city", "getIntro"} |->
                 CASE k = "name" -> Text("Kamarali")
                   [] k = "city" -> Text("Pune")
                   [] k = "getIntro" -> Method("object.getIntro")],
     proto |-> "Object.prototype"]

\* let object2 = { name: "Object 2 KD" }
object2 == [own |-> [k \in {"name"} |-> Text("Object 2 KD")], proto |-> "Object.prototype"]

\* the objects by the name the script knows them by; Object.prototype has none
\* of the properties read here
ChainHeap ==
    [o \in {"object", "object2", "Object.prototype"} |->
        CASE o = "object" -> object
          [] o = "object2" -> object2
          [] o = "Object.prototype" -> [own |-> [k \in {} |-> Undefined], proto |-> "null"]]

ChainObjects == {"object", "object2"}

ChainKeys == {"name", "city", "getIntro"}

\* o[key]: the own property, else that of the prototype, and so on up to null
RECURSIVE Get(_, _, _)
Get(h, o, key) ==
    IF o = "null" THEN Undefined
    ELSE IF key \in DOMAIN h[o].own THEN h[o].own[key]
    ELSE Get(h, h[o].proto, key)

\* what string concatenation and console.log make of a value, in pieces
Shown(x) == IF x.t = "string" THEN x.v ELSE IF x.t = "undefined" THEN "undefined" ELSE "[Function]"

\* a getIntro that reads the object it was written in, whatever it is called on
getIntroOfOwner(h, this) ==
    <<Shown(Get(h, "object", "name")), " from ", Shown(Get(h, "object", "city"))>>

\* console.log(this.name + " from " + this.city)
getIntro(h, this) == <<Shown(Get(h, this, "name")), " from ", Shown(Get(h, this, "city"))>>

ChainStart ==
    [heap |-> ChainHeap, console |-> <<>>, halted |-> FALSE,
     last |-> [op |-> "start", obj |-> "", key |-> "", value |-> Undefined]]

\* object2.__proto__ = object
ChainSetProto ==
    /\ Rest("pchain")
    /\ ~pchain.halted /\ pchain.heap["object2"].proto # "object"
    /\ pchain' = [pchain EXCEPT !.heap["object2"].proto = "object",
                              !.last = [op |-> "setProto", obj |-> "object2",
                                        key |-> "__proto__", value |-> Undefined]]

\* console.log(o[key]), as console.log( object2.city )
ChainRead ==
    /\ Rest("pchain")
    /\ ~pchain.halted /\ Len(pchain.console) < MaxLines
    /\ \E o \in ChainObjects, key \in ChainKeys :
          LET value == Get(pchain.heap, o, key)
          IN  pchain' = [pchain EXCEPT !.console = Append(@, <<Shown(value)>>),
                                     !.last = [op |-> "read", obj |-> o, key |-> key,
                                               value |-> value]]

\* console.log(o.getIntro()): a value that is no function cannot be called, and
\* the script ends with the TypeError; else getIntro logs its line and the
\* statement logs what getIntro returned
ChainGetIntro ==
    /\ Rest("pchain")
    /\ ~pchain.halted /\ Len(pchain.console) < MaxLines
    /\ \E o \in ChainObjects :
          LET fn == Get(pchain.heap, o, "getIntro")
          IN  pchain' = [pchain EXCEPT
                  !.console = IF fn.t = "function"
                              THEN @ \o <<getIntro(pchain.heap, o), <<"undefined">>>>
                              ELSE Append(@, <<"TypeError">>),
                  !.halted = fn.t # "function",
                  !.last = [op |-> "getIntro", obj |-> o, key |-> "getIntro", value |-> fn]]

----------------------------------------------------------------------------
(* Employee management (src/ES6/Default Parameters.md): the class Employee, *)
(* its instances emp1 and emp2, and the object literal emp3.               *)

MaxStmts == 4     \* statements run after the declarations

Salary5000 == Hex(<<1, 3, 8, 8, 0, 0, 0, 0, 0, 0, 0, 0, 0, 0, 0, 0, 0, 0>>)    \* 5000
Salary6000 == Hex(<<1, 7, 7, 0, 0, 0, 0, 0, 0, 0, 0, 0, 0, 0, 0, 0, 0, 0>>)    \* 6000
Salary7000 == Hex(<<1, 11, 5, 8, 0, 0, 0, 0, 0, 0, 0, 0, 0, 0, 0, 0, 0, 0>>)   \* 7000
Factor == Hex(<<1, 1, 9, 9, 9, 9, 9, 9, 9, 9, 9, 9, 9, 10, 0>>)                \* 1.1

\* constructor(name, position, salary, isActive = true); a position is held as
\* the pieces it was put together from
Employee(n, position, salary, isActive) ==
    [name |-> n, position |-> <<position>>, salary |-> salary, isActive |-> isActive]

EmployeeNames == {"emp1", "emp2", "emp3"}

\* emp1 and emp2 are made by new Employee(...), emp3 is written as a literal
\* with the same four properties and its own promote and toggleActive
Employees ==
    [e \in EmployeeNames |->
        CASE e = "emp1" -> Employee("John Doe", "Developer", Salary5000, TRUE)
          [] e = "emp2" -> Employee("Jane Smith", "Designer", Salary6000, FALSE)
          [] e = "emp3" -> Employee("Michael Johnson", "Manager", Salary7000, TRUE)]

\* this.salary *= 1.1; this.position = `Senior ${this.position}`
promote(this) ==
    [this EXCEPT !.salary = NumMul(@, Factor), !.position = <<"Senior ">> \o @]

\* this.isActive = !this.isActive
toggleActive(this) == [this EXCEPT !.isActive = ~@]

Stmt(stmt, on) == [stmt |-> stmt, on |-> on]

EmpStart == [emp |-> Employees, script |-> <<>>, logged |-> <<>>]

\* console.log(emp1); console.log(emp2); console.log(emp3)
EmpLog ==
    /\ Rest("emps")
    /\ Len(emps.script) < MaxStmts
    /\ emps' = [emps EXCEPT !.script = Append(@, Stmt("log", "")),
                            !.logged = Append(@, emps.emp)]

\* e.promote()
EmpPromote ==
    /\ Rest("emps")
    /\ Len(emps.script) < MaxStmts
    /\ \E e \in EmployeeNames :
          emps' = [emps EXCEPT !.script = Append(@, Stmt("promote", e)),
                               !.emp[e] = promote(@)]

\* e.toggleActive()
EmpToggleActive ==
    /\ Rest("emps")
    /\ Len(emps.script) < MaxStmts
    /\ \E e \in EmployeeNames :
          emps' = [emps EXCEPT !.script = Append(@, Stmt("toggleActive", e)),
                               !.emp[e] = toggleActive(@)]

----------------------------------------------------------------------------
(* Function.prototype as the scripts find and leave it: the guarded install *)
(* of the README's bind and the assignments of myBind.                     *)

MaxScripts == 3     \* scripts run in one environment

\* Function.prototype.bind before any script runs: missing (an engine older
\* than ES5), the engine's own, or one a library loaded earlier put there
BindsFound == {Undefined, Method("native bind"), Method("library bind")}

FprotoStart == [bind |-> Undefined, myBind |-> Undefined, ran |-> <<>>]

FprotoInits == {[FprotoStart EXCEPT !.bind = b] : b \in BindsFound}

\* what an if makes of a value that is undefined or a function
ToBoolean(x) == x.t # "undefined"

\* a script that installs its bind whatever it finds
InstallsAlways(fp) == TRUE

\* if (!Function.prototype.bind)
Installs(fp) == ~ToBoolean(fp.bind)

\* the README's script: if (!Function.prototype.bind) { Function.prototype.bind = ... }
FprotoPolyfill ==
    /\ Rest("fproto")
    /\ Len(fproto.ran) < MaxScripts
    /\ fproto' = [fproto EXCEPT
                     !.bind = IF Installs(fproto) THEN Method("README bind") ELSE @,
                     !.ran = Append(@, "Reademe.md")]

\* index.js: Function.prototype.myBind = function(...args){ ... }
FprotoIndexJs ==
    /\ Rest("fproto")
    /\ Len(fproto.ran) < MaxScripts
    /\ fproto' = [fproto EXCEPT !.myBind = Method("index.js myBind"),
                                !.ran = Append(@, "index.js")]

\* Function.prototype.myBind = function(){ ... } of the currying notes
FprotoCurrying ==
    /\ Rest("fproto")
    /\ Len(fproto.ran) < MaxScripts
    /\ fproto' = [fproto EXCEPT !.myBind = Method("Readme.md myBind"),
                                !.ran = Append(@, "Readme.md")]

----------------------------------------------------------------------------
(* A specification moves the variables of one example; those of the other  *)
(* examples stay as they are at program start.                             *)

AtRest(mine) ==
    /\ mine = "bind" \/ BindInit
    /\ mine = "ev" \/ ev = EvStart(GroupBubbling)
    /\ mine = "game" \/ game = NewGame
    /\ mine = "gen" \/ gen = GenStart(<<>>, "next")
    /\ mine = "pg" \/ pg = PgStart(NumPages)
    /\ mine = "tree" \/ tree = NoTree
    /\ mine = "pr" \/ pr = PrStart
    /\ mine = "bal" \/ bal = BalStart(<<>>)
    /\ mine = "cart" \/ cart = ShoppingCart
    /\ mine = "pchain" \/ pchain = ChainStart
    /\ mine = "emps" \/ emps = EmpStart
    /\ mine = "fproto" \/ fproto = FprotoStart

Init == BindInit /\ AtRest("bind")

\* the functions the program can name: fNOP is local to bind
Callables == {Fun(i) : i \in {j \in 1..Len(funcs) : funcs[j].kind # "fNOP"}}

\* the functions made by myBind or bind
BoundCallables == {fv \in Callables : funcs[fv.v].kind \in {"myBound", "fBound"}}

CallReceivers == {Undef, name} \cup insts

\* the function objects after a call that caused the activations fr
FuncsAfter(F, fr) ==
    [i \in 1..Len(F) |->
        IF F[i].kind = "myBound" /\ \E k \in 1..Len(fr) : fr[k].fn = i
        THEN MyBoundAfter(F[i], fr[CHOOSE k \in 1..Len(fr) : fr[k].fn = i].args)
        ELSE F[i]]

\* Function.prototype.myBind = function(...args){ ... }, called on target
MyBindClosure(target, args, proto) ==
    [kind |-> "myBound", prototype |-> proto,
     obj |-> target, args |-> args, params |-> Slice1(args)]

MyBindFuncs(F, target, args, proto) == Append(F, MyBindClosure(target, args, proto))

MyBind(target, args) ==
    /\ nbinds < MaxBinds
    /\ LET proto == Obj(Len(objs) + 1)    \* the prototype object of the new function
       IN  /\ funcs' = MyBindFuncs(funcs, target, args, proto)
           /\ born' = Append(born, MyBindClosure(target, args, proto))
           /\ objs' = Append(objs, [proto |-> ObjectPrototype, base |-> Undef])
           /\ last' = Outcome("myBind", target, Undef, args,
                              [frames |-> <<>>, ret |-> Fun(Len(funcs) + 1),
                               err |-> FALSE], Undef)
    /\ nbinds' = nbinds + 1
    /\ again' = FALSE
    /\ UNCHANGED <<npoly, nnews, insts>>

\* in the run of consecutive calls of fv that this call extends, two calls that
\* follow each other have different trailing arguments
Again(fv, argv) ==
    last.op = "call" /\ last.fn = fv /\ (again \/ last.args # argv)

\* a top-level plain call fv.call(thisArg, ...argv) of a bound function
Invoke(fv, thisArg, argv) ==
    /\ LET r == Call(objs, fv, thisArg, argv)
       IN  /\ last' = Outcome("call", fv, thisArg, argv, r, Undef)
           /\ funcs' = FuncsAfter(funcs, r.frames)
    /\ again' = Again(fv, argv)
    /\ UNCHANGED <<objs, born, nbinds, npoly, nnews, insts>>

\* a top-level new fv(...argv)
New(fv, argv) ==
    /\ nnews < MaxNews
    /\ nnews' = nnews + 1
    /\ again' = FALSE
    /\ IF ~IsConstructor(fv)
       THEN /\ last' = Outcome("new", fv, Undef, argv, Thrown, Undef)
            /\ UNCHANGED <<funcs, objs, born, nbinds, npoly, insts>>
       ELSE LET inst == Obj(Len(objs) + 1)
                O    == Append(objs, [proto |-> InstanceProto(funcs[fv.v]),
                                      base |-> Undef])
                r    == Call(O, fv, inst, argv)
                val  == NewValue(inst, r.ret)
            IN  /\ objs' = O
                /\ funcs' = FuncsAfter(funcs, r.frames)
                /\ last' = [Outcome("new", fv, inst, argv, r, inst)
                               EXCEPT !.ret = IF r.err THEN Undef ELSE val]
                /\ insts' = IF r.err \/ ~IsObj(val) THEN insts ELSE insts \cup {val}
                /\ UNCHANGED <<born, nbinds, npoly>>

\* Function.prototype.bind = function (oThis) { ... } of the README, called on
\* target with arguments oThis, ...aArgs.  The prototype object a function is
\* created with is allocated here only where it stays reachable: fBound's is
\* replaced at once, fNOP's is replaced when this.prototype is truthy.
\* A prototype property holds an object or nothing, so what is truthy is an object.
Truthy(x) == x # Undef /\ x # Null

\* a test that no value passes: typeof this !== 'Function'
BindThrowsAlways(target) == TRUE

BindThrows(target) == ~IsCallable(target)      \* typeof this !== 'function'

\* fNOP.prototype once line 48-50 has run; own is the object fNOP was created with
FNOPPrototype(c, own) == IF Truthy(c.prototype) THEN c.prototype ELSE own

BindObjs(O, target) ==
    LET own  == Obj(Len(O) + 1)
        keep == ~Truthy(funcs[target.v].prototype)
        O1   == IF keep THEN Append(O, [proto |-> ObjectPrototype, base |-> Undef])
                ELSE O
        nop  == [kind |-> "fNOP", prototype |-> FNOPPrototype(funcs[target.v], own)]
    IN  Append(O1, [proto |-> InstanceProto(nop), base |-> Undef])    \* new fNOP()

\* a bind that hung the fNOP instance on the function being bound as well:
\* fBound.prototype = this.prototype = new fNOP()
BindFuncsOnTarget(F, O, target, oThis, aArgs) ==
    LET own == Obj(Len(O) + 1)
        O2  == BindObjs(O, target)
        nop == [kind |-> "fNOP", prototype |-> FNOPPrototype(F[target.v], own)]
        bnd == [kind |-> "fBound", prototype |-> Obj(Len(O2)),
                fToBind |-> target, oThis |-> oThis, aArgs |-> aArgs,
                fNOP |-> Fun(Len(F) + 1)]
    IN  [F EXCEPT ![target.v].prototype = Obj(Len(O2))] \o <<nop, bnd>>

BindFuncs(F, O, target, oThis, aArgs) ==
    LET own == Obj(Len(O) + 1)
        O2  == BindObjs(O, target)
        nop == [kind |-> "fNOP", prototype |-> FNOPPrototype(F[target.v], own)]
        bnd == [kind |-> "fBound", prototype |-> Obj(Len(O2)),
                fToBind |-> target, oThis |-> oThis, aArgs |-> aArgs,
                fNOP |-> Fun(Len(F) + 1)]
    IN  F \o <<nop, bnd>>

Bind(target, oThis, aArgs) ==
    /\ nbinds < MaxBinds
    /\ npoly < MaxPolyfill
    /\ nbinds' = nbinds + 1
    /\ npoly' = npoly + 1
    /\ again' = FALSE
    /\ IF BindThrows(target)
       THEN /\ last' = Outcome("bind", target, Undef, <<oThis>> \o aArgs, Thrown, Undef)
            /\ UNCHANGED <<funcs, objs, born>>
       ELSE /\ funcs' = BindFuncs(funcs, objs, target, oThis, aArgs)
            /\ objs' = BindObjs(objs, target)
            /\ born' = born \o SubSeq(funcs', Len(funcs) + 1, Len(funcs) + 2)
            /\ last' = Outcome("bind", target, Undef, <<oThis>> \o aArgs,
                               [frames |-> <<Frame(Len(funcs) + 1, Obj(Len(objs')), <<>>)>>,
                                ret |-> Fun(Len(funcs) + 2), err |-> FALSE], Undef)
    /\ UNCHANGED <<nnews, insts>>

DoMyBind ==
    /\ \E target \in Targets, args \in MyBindArgs : MyBind(target, args)
    /\ Rest("bind")

DoBind ==
    /\ \E target \in Targets, oThis \in BindReceivers, aArgs \in Prefixes :
          Bind(target, oThis, aArgs)
    /\ Rest("bind")

DoInvoke ==
    /\ \E fv \in BoundCallables, thisArg \in CallReceivers, argv \in Trailings :
          Invoke(fv, thisArg, argv)
    /\ Rest("bind")

DoNew ==
    /\ \E fv \in Callables, argv \in Trailings : New(fv, argv)
    /\ Rest("bind")

\* myBind and plain calls of what it returns
NextMyBind == DoMyBind \/ DoInvoke

SpecMyBind == Init /\ [][NextMyBind]_vars

\* myBind, plain calls and new
NextMyBindNew == DoMyBind \/ DoInvoke \/ DoNew

SpecMyBindNew == Init /\ [][NextMyBindNew]_vars

\* the two binding operations alone
NextBinds == DoMyBind \/ DoBind

SpecBinds == Init /\ [][NextBinds]_vars

\* the README's bind, plain calls and new
NextReadme == DoBind \/ DoInvoke \/ DoNew

SpecReadme == Init /\ [][NextReadme]_vars

Next == DoMyBind \/ DoBind \/ DoInvoke \/ DoNew

Spec == Init /\ [][Next]_vars

----------------------------------------------------------------------------
(* Properties of myBind.                                                   *)

\* the activations of the functions that were bound: those of f and console.log
UserFrames(fr) == SelectSeq(fr, LAMBDA x : funcs[x.fn].kind \in {"sum", "builtin"})

\* the activations in fr of the function whose id is id
FramesOf(fr, id) == SelectSeq(fr, LAMBDA x : x.fn = id)

\* the last operation was a plain call of a function made by myBind from a function
MyBoundCalled ==
    /\ last.op = "call"
    /\ funcs[last.fn.v].kind = "myBound"
    /\ IsCallable(born[last.fn.v].obj)

\* C1: a plain call of f.myBind(r, ...a) with arguments b, whatever receiver the
\* call site supplies, invokes f exactly once, with receiver r and arguments a ++ b.
C1_PlainCallInvokesOriginal ==
    MyBoundCalled =>
        LET c == born[last.fn.v]
        IN  FramesOf(last.frames, c.obj.v) =
                <<Frame(c.obj.v, At(c.args, 1), Slice1(c.args) \o last.args)>>

\* f.myBind(receiver, a) with a # <<>> was called with another receiver, name,
\* and with arguments
C1_Witness ==
    /\ MyBoundCalled
    /\ born[last.fn.v].obj = f
    /\ At(born[last.fn.v].args, 1) = receiver
    /\ Len(born[last.fn.v].args) = 2
    /\ last.this = name
    /\ last.args # <<>>

\* C2: a call of a bound function returns what the original function returns for
\* receiver r and arguments a ++ b.
C2_ReturnsValueOfOriginal ==
    MyBoundCalled =>
        LET c == born[last.fn.v]
        IN  last.ret = Call(objs, c.obj, At(c.args, 1), Slice1(c.args) \o last.args).ret

\* C3: however often a bound function has been called, its captured receiver and
\* prefix are what they were when myBind returned, and a call passes that prefix
\* followed by its own trailing arguments only.
C3_CaptureNeverChanges ==
    /\ \A i \in 1..Len(funcs) :
          funcs[i].kind = "myBound" =>
              /\ funcs[i].args = born[i].args
              /\ funcs[i].params = born[i].params
              /\ funcs[i].obj = born[i].obj
    /\ MyBoundCalled =>
          LET c == born[last.fn.v]
              fr == FramesOf(last.frames, c.obj.v)
          IN  /\ Len(fr) = 1
              /\ fr[1].this = At(c.args, 1)
              /\ fr[1].args = c.params \o last.args

\* a bound function with a prefix has been called again, with other trailing
\* arguments than in the call before
C3_Witness ==
    /\ MyBoundCalled
    /\ again
    /\ born[last.fn.v].params # <<>>
    /\ last.args # <<>>

\* C4: bind(bind(g, r, a), r2, b) called with T does to g what bind(g, r, a, b)
\* called with T does: r2 is ignored and g gets receiver r and arguments a ++ b ++ T.
C4_RebindComposes ==
    (MyBoundCalled /\ born[born[last.fn.v].obj.v].kind = "myBound") =>
        LET outer == born[last.fn.v]
            inner == born[outer.obj.v]
            flat  == MyBindClosure(inner.obj,
                                   <<At(inner.args, 1)>> \o inner.params \o outer.params,
                                   Undef)
            once  == Apply(objs, 0, flat, last.this, last.args)
        IN  /\ UserFrames(last.frames) = UserFrames(Tail(once.frames))
            /\ last.ret = once.ret
            /\ last.err = once.err
            /\ IsCallable(inner.obj) /\ born[inner.obj.v].kind \in {"sum", "builtin"} =>
                  UserFrames(last.frames) =
                      <<Frame(inner.obj.v, At(inner.args, 1),
                              inner.params \o outer.params \o last.args)>>

\* f.myBind(receiver, a).myBind(name, b) was called with T; a, b and T are not empty
C4_Witness ==
    /\ MyBoundCalled
    /\ born[born[last.fn.v].obj.v].kind = "myBound"
    /\ born[born[last.fn.v].obj.v].obj = f
    /\ At(born[born[last.fn.v].obj.v].args, 1) = receiver
    /\ At(born[last.fn.v].args, 1) = name
    /\ born[born[last.fn.v].obj.v].params # <<>>
    /\ born[last.fn.v].params # <<>>
    /\ last.args # <<>>

\* C7: myBind applied to what is not callable fails with a TypeError at once and
\* creates no bound function.
C7_NonCallableFailsAtBind ==
    (last.op = "myBind" /\ ~IsCallable(last.fn)) =>
        /\ last.err
        /\ ~IsFun(last.ret)

\* the last operation was a new of a function made by myBind from a function
MyBoundConstructed ==
    /\ last.op = "new"
    /\ funcs[last.fn.v].kind = "myBound"
    /\ IsCallable(born[last.fn.v].obj)

\* C5: when a function made by myBind is called with new, the original function
\* runs against the new instance and not against the captured receiver.
C5_NewRunsOnInstance ==
    MyBoundConstructed =>
        LET c  == born[last.fn.v]
            fr == FramesOf(last.frames, c.obj.v)
        IN  /\ Len(fr) = 1
            /\ fr[1].this = last.inst
            /\ fr[1].this # At(c.args, 1)

\* C6: new (F.myBind(r, ...a))(...b) yields an instance that delegates as an
\* instance made by new F(...a, ...b) does: to F.prototype and on from there.
C6_NewDelegatesLikeDirect ==
    (MyBoundConstructed /\ born[born[last.fn.v].obj.v].kind = "sum") =>
        LET F == born[born[last.fn.v].obj.v]
        IN  /\ ProtoChain(objs, last.ret) =
                   <<InstanceProto(F)>> \o ProtoChain(objs, InstanceProto(F))
            /\ GetBase(objs, last.ret) = GetBase(objs, InstanceProto(F))

----------------------------------------------------------------------------
(* Properties of the two binding operations together.                      *)

\* C8: a step of myBind or of the README's bind changes no function object and
\* no object that existed before it, the function being bound and its prototype
\* object among them, and runs no function that existed before it.
C8_BindLeavesOriginal ==
    [][ (last'.op \in {"myBind", "bind"} /\ nbinds' = nbinds + 1) =>
            /\ \A i \in 1..Len(funcs) : funcs'[i] = funcs[i]
            /\ \A j \in 1..Len(objs) : objs'[j] = objs[j]
            /\ \A k \in 1..Len(last'.frames) : last'.frames[k].fn > Len(funcs) ]_vars

\* the README's bind has bound f: fNOP and f share f.prototype, and f.myBind has
\* been used as well
C8_Witness ==
    /\ last.op = "bind"
    /\ ~last.err
    /\ last.fn = f
    /\ funcs[Len(funcs) - 1].prototype = funcs[1].prototype
    /\ \E i \in 1..Len(funcs) : funcs[i].kind = "myBound" /\ funcs[i].obj = f

----------------------------------------------------------------------------
(* Properties of the README's Function.prototype.bind.                     *)

\* the last operation was a plain call of a function made by bind
FBoundCalled ==
    /\ last.op = "call"
    /\ funcs[last.fn.v].kind = "fBound"

\* the last operation was a new of a function made by bind
FBoundConstructed ==
    /\ last.op = "new"
    /\ funcs[last.fn.v].kind = "fBound"

\* C9: every plain call of fBound runs fToBind with this = oThis, whatever
\* receiver the call site supplies.
C9_PlainCallUsesOThis ==
    FBoundCalled =>
        LET c  == born[last.fn.v]
            fr == FramesOf(last.frames, c.fToBind.v)
        IN  /\ Len(fr) = 1
            /\ fr[1].this = c.oThis

\* C10: new fBound(...args) applies fToBind to the new instance, not to oThis,
\* with aArgs followed by args, and the instance delegates to fToBind.prototype.
C10_NewRunsOnInstance ==
    FBoundConstructed =>
        LET c  == born[last.fn.v]
            F  == born[c.fToBind.v]
            fr == FramesOf(last.frames, c.fToBind.v)
        IN  /\ ~last.err
            /\ Len(fr) = 1
            /\ fr[1].this = last.inst
            /\ fr[1].this # c.oThis
            /\ fr[1].args = c.aArgs \o last.args
            /\ IsObj(F.prototype) =>
                  /\ InChain(objs, last.inst, F.prototype)
                  /\ GetBase(objs, last.inst) = GetBase(objs, F.prototype)

\* new (f.bind(oThis, a))(b) has been evaluated, a and b not empty
C10_Witness ==
    /\ FBoundConstructed
    /\ born[last.fn.v].fToBind = f
    /\ born[last.fn.v].aArgs # <<>>
    /\ last.args # <<>>
    /\ last.ret = last.inst

\* C11: bind called on what is not a function throws a TypeError before fBound
\* is created: nothing is allocated and no function is returned; called on a
\* function it does not throw and returns the new fBound.
C11_BindThrowsOnlyOnNonFunction ==
    [][ (last'.op = "bind" /\ nbinds' = nbinds + 1) =>
            IF IsCallable(last'.fn)
            THEN /\ ~last'.err
                 /\ last'.ret = Fun(Len(funcs'))
                 /\ funcs'[Len(funcs')].kind = "fBound"
                 /\ Len(funcs') = Len(funcs) + 2
            ELSE /\ last'.err
                 /\ ~IsFun(last'.ret)
                 /\ funcs' = funcs
                 /\ objs' = objs ]_vars

\* bind has been called on the object name, which is not a function
C11_Witness ==
    /\ last.op = "bind"
    /\ last.fn = name
    /\ last.err
    /\ funcs = InitFuncs

----------------------------------------------------------------------------
(* Properties of the click events.                                         *)

NextEv == (\E t \in 1..3 : EvClick(t)) \/ EvVisit

SpecEv == ev \in EvInits /\ AtRest("ev") /\ [][NextEv]_vars

\* the place of element e's line in the console, 0 if it is not there
LogPos(e) ==
    IF \E i \in 1..Len(ev.log) : ev.log[i] = Label(e)
    THEN CHOOSE i \in 1..Len(ev.log) : ev.log[i] = Label(e)
    ELSE 0

NoStop(cfg) == \A e \in 1..3 : ~cfg[e].stop

\* C12: for a click on the child, capturing listeners of ancestors run before the
\* child's listener, outermost first, and bubbling listeners of ancestors after
\* it, innermost first; with no stopPropagation every listener runs once.  The
\* all-bubbling group logs Child, Parent, Grandparent, the all-capturing group
\* Grandparent, Parent, Child, and grandparent capturing / parent bubbling logs
\* Grandparent, Child, Parent with the child capturing or bubbling.
C12_CaptureThenTargetThenBubble ==
    ev.target = 3 =>
        /\ \A a \in 1..2 :
              LogPos(a) # 0 =>
                  IF ev.cfg[a].capture
                  THEN /\ LogPos(3) # 0 => LogPos(a) < LogPos(3)
                       /\ \A b \in 1..2 :
                             (b > a /\ ev.cfg[b].capture /\ LogPos(b) # 0) =>
                                 LogPos(a) < LogPos(b)
                  ELSE /\ LogPos(3) # 0 /\ LogPos(3) < LogPos(a)
                       /\ \A b \in 1..2 :
                             (b > a /\ ~ev.cfg[b].capture) =>
                                 (LogPos(b) # 0 /\ LogPos(b) < LogPos(a))
        /\ (EvDone /\ NoStop(ev.cfg)) =>
              /\ Len(ev.log) = 3
              /\ \A e \in 1..3 : LogPos(e) # 0
        /\ (EvDone /\ ev.cfg = GroupBubbling) =>
              ev.log = <<Label(3), Label(2), Label(1)>>
        /\ (EvDone /\ ev.cfg = GroupCapturing) =>
              ev.log = <<Label(1), Label(2), Label(3)>>
        /\ (EvDone /\ ev.cfg \in {GroupMixedCapture, GroupMixedBubble}) =>
              ev.log = <<Label(1), Label(3), Label(2)>>

\* the click on #child2 (grandparent capturing, parent bubbling, child capturing)
\* has been dispatched to the end
C12_Witness ==
    /\ ev.target = 3
    /\ EvDone
    /\ ev.cfg = GroupMixedCapture
    /\ Len(ev.log) = 3

----------------------------------------------------------------------------
(* Properties of the tic-tac-toe classes.                                  *)

\* a Game from its construction on; game.board is reachable from outside, and
\* is given up to MaxMarks marks
NextGame ==
    \/ \E index \in Indices : GameMakeMove(index)
    \/ /\ Marks(game.board) < MaxMarks
       /\ \E index \in Indices, symbol \in Symbols : BoardMakeMove(index, symbol)
    \/ RestartGame

SpecGame == game = NewGame /\ AtRest("game") /\ [][NextGame]_vars

\* checkWinner over every board
BoardInits == {[NewGame EXCEPT !.board = b] : b \in AllBoards}

SpecBoard == game \in BoardInits /\ AtRest("game") /\ [][BoardCheckWinner]_vars

\* C13: a Game.makeMove(index) on a game that is not over, into an empty cell,
\* places the symbol of the player whose turn it is (X first, then O, in turn)
\* in that cell and returns true; unless the move ends the game the turn passes
\* to the other player.
C13_MovesAlternate ==
    [][ ( /\ game'.last.op = "Game.makeMove"
          /\ game' # game
          /\ ~game.gameOver
          /\ isCellEmpty(game.board, game'.last.index) ) =>
            /\ ~game'.last.err
            /\ game'.last.ret = "true"
            /\ Cell(game'.board, game'.last.index) = Players[game.currentPlayerIndex + 1].symbol
            /\ ~game'.gameOver => game'.currentPlayerIndex = 1 - game.currentPlayerIndex ]_vars

HasLine(board, s) ==
    \E k \in DOMAIN WinningPositions :
        \A j \in 1..3 : Cell(board, WinningPositions[k][j]) = s

\* what the statement of C14 asks checkWinner to return for a board and a
\* result r
AsStated(board, r) ==
    /\ \A s \in Symbols : r = s <=> HasLine(board, s)
    /\ r = "tie" <=> ((\A s \in Symbols : ~HasLine(board, s)) /\ ~Includes(board, NullCell))
    /\ r \in Symbols \cup {"tie", NullCell}

\* C14 as stated: for every board, checkWinner returns s exactly when some row,
\* column or diagonal holds three s, "tie" exactly when there is no such line
\* and no null cell, null otherwise, and leaves the board as it was.
C14_CheckWinnerAsStated ==
    [][ game'.last.op = "GameBoard.checkWinner" =>
            /\ game'.board = game.board
            /\ AsStated(game.board, game'.last.ret) ]_vars

Complete(board, k) ==
    \E s \in Symbols : \A j \in 1..3 : Cell(board, WinningPositions[k][j]) = s

\* C14, amended: checkWinner returns a symbol exactly when some row, column or
\* diagonal holds three equal symbols, and then the symbol of the first such
\* line in the order rows, columns, diagonals (a board may hold a line of X
\* and a line of O); "tie" exactly when there is no complete line and no null
\* cell; null otherwise; and it leaves the board as it was.
C14_CheckWinner ==
    [][ game'.last.op = "GameBoard.checkWinner" =>
            LET r == game'.last.ret
                b == game.board
            IN  /\ game'.board = b
                /\ r \in Symbols <=> \E s \in Symbols : HasLine(b, s)
                /\ r \in Symbols => HasLine(b, r)
                /\ r \in Symbols =>
                       \E k \in DOMAIN WinningPositions :
                           /\ Complete(b, k)
                           /\ Cell(b, WinningPositions[k][1]) = r
                           /\ \A j \in 1..(k - 1) : ~Complete(b, j)
                /\ r = "tie" <=> ((\A s \in Symbols : ~HasLine(b, s)) /\ ~Includes(b, NullCell))
                /\ r \in Symbols \cup {"tie", NullCell} ]_vars

\* checkWinner has answered "X" for a full board with a line of X
C14_Witness ==
    /\ game.last.op = "GameBoard.checkWinner"
    /\ game.last.ret = "X"
    /\ ~Includes(game.board, NullCell)
    /\ HasLine(game.board, "X")

----------------------------------------------------------------------------
(* Properties of the generators.                                           *)

NextGen == GenNext \/ GenLog

SpecGen == gen \in GenInits /\ AtRest("gen") /\ [][NextGen]_vars

IsPrefix(s, t) == Len(s) <= Len(t) /\ \A i \in 1..Len(s) : s[i] = t[i]

RECURSIVE Values(_)
Values(console) ==
    IF console = <<>> THEN <<>> ELSE <<Head(console).v>> \o Values(Tail(console))

\* C15: for the first groceryShopping generator the six journey.next().value
\* calls return 'Start walking', 'Still walking', 'In the store - see you soon',
\* 'I'm back with groceries', 'Heading back home' and undefined, in this order.
C15_NextValues ==
    (gen.consumer = "next" /\ gen.body = groceryShopping) =>
        IsPrefix(gen.returned,
                 << "Start walking", "Still walking", "In the store - see you soon",
                    "I'm back with groceries", "Heading back home", UndefinedValue >>)

\* the line a statement of the body leaves on the console under for...of
LineOf(stmt) == IF stmt.k = "log" THEN ByBody(stmt.v) ELSE ByConsumer(stmt.v)

\* C16: under for...of the console holds, at every moment, one line for each
\* statement of the body that has run, in the order of the body: the body's own
\* logs printed by the body, each yielded value printed by the loop before the
\* body goes on; the loop ends on done and prints no undefined.  For the
\* groceryShopping with the laundry step the lines are 'Start walking', 'Still
\* walking', 'At the store!', 'Going in with money', 'In the store - see you
\* soon', 'Stuff from laundry', 'I'm back with groceries', 'Heading back home'.
C16_ForOfLines ==
    gen.consumer = "for...of" =>
        /\ LET n == IF gen.pending.has THEN gen.pc - 2 ELSE gen.pc - 1
           IN  gen.console = [i \in 1..n |-> LineOf(gen.body[i])]
        /\ \A i \in 1..Len(gen.console) :
              gen.console[i].by = "consumer" => gen.console[i].v # UndefinedValue
        /\ gen.finished => gen.done /\ Len(gen.console) = Len(gen.body)
        /\ (gen.finished /\ gen.body = groceryShoppingLaundry) =>
              Values(gen.console) =
                  << "Start walking", "Still walking", "At the store!",
                     "Going in with money", "In the store - see you soon",
                     "Stuff from laundry", "I'm back with groceries",
                     "Heading back home" >>

\* the for...of loop over the groceryShopping with the laundry step has ended
C16_Witness ==
    /\ gen.consumer = "for...of"
    /\ gen.body = groceryShoppingLaundry
    /\ gen.finished
    /\ Len(gen.console) = 8

----------------------------------------------------------------------------
(* Properties of the paginated fetch.                                      *)

NextPg == PgWhile \/ PgTimeout \/ PgAwaited \/ PgYield \/ PgLog

SpecPg == pg \in PgInits /\ AtRest("pg") /\ [][NextPg]_vars

\* the event loop runs every timer callback and every promise job that is due
FairSpecPg == SpecPg /\ WF_vars(NextPg)

\* the items of pages 1..n in the order of the pages
RECURSIVE ItemsUpTo(_)
ItemsUpTo(n) ==
    IF n = 0 THEN <<>>
    ELSE ItemsUpTo(n - 1) \o <<Item(n * 1), Item(n * 2), Item(n * 3)>>

PgOrdered ==
    /\ pg.requests = [i \in 1..Len(pg.requests) |-> i]
    /\ Len(pg.requests) <= pg.pages
    /\ IsPrefix(pg.console, ItemsUpTo(pg.pages))
    /\ Len(pg.requests) > 0 => Len(pg.console) >= 3 * (Len(pg.requests) - 1)
    /\ Len(pg.console) <= 3 * Len(pg.requests)
    /\ pg.pc = "done" =>
          /\ pg.console = ItemsUpTo(pg.pages)
          /\ Len(pg.requests) = pg.pages
          /\ ~pg.result.hasMore
    /\ (pg.pc = "done" /\ pg.pages = NumPages) =>
          /\ pg.requests = <<1, 2, 3>>
          /\ Len(pg.console) = 9

\* C17: the for await...of loop over fetchPaginatedData ends; pages are
\* requested in the order 1, 2, 3 and no page after the last; the console gets
\* the three items of each page in page order (9 in all for 3 pages); page
\* n + 1 is requested only when all items of page n have been logged; the loop
\* is over once the page with hasMore = false has been yielded.
C17_FetchesEveryPageAndEnds == []PgOrdered /\ <>(pg.pc = "done")

\* the loop over the three pages of the example has ended
C17_Witness ==
    /\ pg.pc = "done"
    /\ pg.pages = NumPages
    /\ pg.requests = <<1, 2, 3>>
    /\ Len(pg.console) = 9

----------------------------------------------------------------------------
(* Properties of the tree traversal.                                       *)

NextTree ==
    \/ TreeNew
    \/ \E parent \in DOMAIN tree.nodes, child \in DOMAIN tree.nodes :
          TreeAddChild(parent, child)
    \/ \E root \in DOMAIN tree.nodes : TreeTraverse(root)
    \/ TreeNext

\* a program that builds its own tree, or the sample program
SpecTree == tree \in {NoTree, SampleTree} /\ AtRest("tree") /\ [][NextTree]_vars

\* the place of node n in the output, 0 if it is not there
OutPos(n) ==
    IF \E i \in DOMAIN tree.out : tree.out[i].node = n
    THEN CHOOSE i \in DOMAIN tree.out : tree.out[i].node = n
    ELSE 0

\* C18: traverseTree(root) yields the value of every node of the tree once, a
\* node before all of its descendants and the subtrees of a node in the order
\* their roots were added; when the generator is done every node of the tree
\* has been yielded; for the sample tree the values are 1, 2, 4, 3, 5.
C18_PreOrder ==
    tree.phase # "build" =>
        LET nodes == tree.nodes
            out   == tree.out
        IN  /\ \A i, j \in DOMAIN out : out[i].node = out[j].node => i = j
            /\ \A i \in DOMAIN out : out[i].value = nodes[out[i].node].value
            /\ \A p \in DOMAIN nodes : \A k \in DOMAIN nodes[p].children :
                  LET c == nodes[p].children[k]
                  IN  /\ OutPos(c) # 0 => (OutPos(p) # 0 /\ OutPos(p) < OutPos(c))
                      /\ \A k2 \in DOMAIN nodes[p].children :
                            k < k2 =>
                                \A m \in Subtree(nodes, nodes[p].children[k2]) :
                                    OutPos(m) # 0 =>
                                        \A n \in Subtree(nodes, c) :
                                            OutPos(n) # 0 /\ OutPos(n) < OutPos(m)
            /\ tree.phase = "done" =>
                  /\ Len(out) > 0
                  /\ {out[i].node : i \in DOMAIN out} = Subtree(nodes, out[1].node)
                  /\ ~HasParent(nodes, out[1].node)
            /\ (tree.phase = "done" /\ nodes = SampleTree.nodes) =>
                  [i \in DOMAIN out |-> out[i].value] = <<1, 2, 4, 3, 5>>

\* the loop over the sample tree has ended
C18_Witness ==
    /\ tree.phase = "done"
    /\ tree.nodes = SampleTree.nodes
    /\ Len(tree.out) = 5

----------------------------------------------------------------------------
(* Properties of the promise chain.                                        *)

NextPr == (\E success \in BOOLEAN : PrChain(success)) \/ PrTick \/ PrTimeout \/ PrJob

SpecPr == pr = PrStart /\ AtRest("pr") /\ [][NextPr]_vars

CallsOf(fn, c) == {i \in DOMAIN pr.calls : pr.calls[i].fn = fn /\ pr.calls[i].chain = c}

\* C19: in every run of the chain, processData is called only once fetchData's
\* promise is fulfilled, and with its value; displayResult only once the promise
\* processData returned is fulfilled, and with its value; handleError is not
\* called then.  If fetchData's promise is rejected, processData and
\* displayResult are never called, and handleError is called once, with the
\* reason, by the time the chain has settled.
C19_ChainOrder ==
    \A c \in DOMAIN pr.chains :
        LET ch      == pr.chains[c]
            fetched == pr.proms[ch.fetched]
        IN  /\ \A i \in CallsOf("processData", c) :
                  /\ fetched.state = "fulfilled"
                  /\ pr.calls[i].arg = fetched.value
            /\ \A i \in CallsOf("displayResult", c) :
                  \E k \in CallsOf("processData", c) :
                      /\ k < i
                      /\ pr.proms[pr.calls[k].ret].state = "fulfilled"
                      /\ pr.proms[pr.calls[k].ret].value = pr.calls[i].arg
            /\ Cardinality(CallsOf("processData", c)) <= 1
            /\ Cardinality(CallsOf("displayResult", c)) <= 1
            /\ ch.success => CallsOf("handleError", c) = {}
            /\ (ch.success /\ pr.proms[ch.last].state # "pending") =>
                  /\ Cardinality(CallsOf("displayResult", c)) = 1
                  /\ \E i \in CallsOf("displayResult", c) :
                        pr.calls[i].arg = Processed(Str("Data fetched successfully."))
            /\ fetched.state = "rejected" =>
                  /\ CallsOf("processData", c) = {}
                  /\ CallsOf("displayResult", c) = {}
                  /\ Cardinality(CallsOf("handleError", c)) <= 1
                  /\ \A i \in CallsOf("handleError", c) : pr.calls[i].arg = fetched.value
            /\ (~ch.success /\ pr.proms[ch.last].state # "pending") =>
                  /\ fetched.state = "rejected"
                  /\ Cardinality(CallsOf("handleError", c)) = 1

\* one chain whose fetch failed has called handleError, another has displayed
\* its result
C19_Witness ==
    /\ \E c \in DOMAIN pr.chains :
          /\ ~pr.chains[c].success
          /\ CallsOf("handleError", c) # {}
    /\ \E c \in DOMAIN pr.chains :
          /\ pr.chains[c].success
          /\ CallsOf("displayResult", c) # {}

----------------------------------------------------------------------------
(* Properties of isBalanced.                                               *)

SpecBal == bal \in BalInits /\ AtRest("bal") /\ [][BalCall]_vars

Count(str, char, n) == Cardinality({i \in 1..n : str[i] = char})

Balanced(str) ==
    /\ \A n \in 0..Len(str) : Count(str, ")", n) <= Count(str, "(", n)
    /\ Count(str, ")", Len(str)) = Count(str, "(", Len(str))

\* C20: isBalanced(str) is true exactly when no prefix of str holds more ')'
\* than '(' and str holds as many ')' as '('; it is true for '' and '((()))',
\* false for '(()' and ')()('.
C20_IsBalanced ==
    bal.called =>
        /\ bal.ret <=> Balanced(bal.str)
        /\ bal.str \in {<<>>, <<"(", "(", "(", ")", ")", ")">>} => bal.ret
        /\ bal.str \in {<<"(", "(", ")">>, <<")", "(", ")", "(">>} => ~bal.ret

\* isBalanced("((()))") has returned true
C20_Witness ==
    /\ bal.called
    /\ bal.str = <<"(", "(", "(", ")", ")", ")">>
    /\ bal.ret

----------------------------------------------------------------------------
(* Properties of e.stopPropagation().                                      *)

\* the visits of a click on t at which the listener of the place runs
RunningVisits(cfg, t) ==
    SelectSeq([k \in 1..NumVisits(t) |-> k],
              LAMBDA k : ListenerRuns(cfg[VisitElem(t, k)], VisitPhase(t, k)))

\* C29: a listener that calls e.stopPropagation() is the last to run: the
\* listeners of the places before it on the path have run, in path order, and
\* none after it does.  For a click on the child: with bubbling listeners and
\* the stop in the parent's, Child and Parent are logged and Grandparent never;
\* with the stop in the child's, only Child; with capturing listeners and the
\* stop in the grandparent's, only Grandparent.
C29_StopPropagation ==
    ev.target # 0 =>
        LET t  == ev.target
            rv == RunningVisits(ev.cfg, t)
            n  == Len(ev.log)
        IN  /\ n <= Len(rv)
            /\ \A i \in 1..n : ev.log[i] = Label(VisitElem(t, rv[i]))
            /\ \A i \in 1..n : ev.cfg[VisitElem(t, rv[i])].stop => i = n
            /\ EvDone =>
                  \/ n = Len(rv)
                  \/ n > 0 /\ ev.cfg[VisitElem(t, rv[n])].stop
            /\ (t = 3 /\ ev.cfg = GroupStopParent) =>
                  /\ IsPrefix(ev.log, <<Label(3), Label(2)>>)
                  /\ EvDone => Len(ev.log) = 2
            /\ (t = 3 /\ ev.cfg = GroupStopChild) =>
                  /\ IsPrefix(ev.log, <<Label(3)>>)
                  /\ EvDone => Len(ev.log) = 1
            /\ (t = 3 /\ ev.cfg = GroupStopGrand) =>
                  /\ IsPrefix(ev.log, <<Label(1)>>)
                  /\ EvDone => Len(ev.log) = 1

\* the click on #child4 has stopped at the parent's listener
C29_Witness ==
    /\ ev.target = 3
    /\ ev.cfg = GroupStopParent
    /\ ev.stopped
    /\ ev.log = <<Label(3), Label(2)>>

----------------------------------------------------------------------------
(* Further properties of the tic-tac-toe classes.                          *)

\* C24: GameBoard.makeMove(index, symbol) on an occupied cell returns false and
\* leaves the board as it is; on an empty cell it sets that cell to symbol,
\* leaves the other eight cells as they are and returns true.  Unless the
\* board is reset, a cell that is not null keeps its content.
C24_NeverOverwrites ==
    [][ /\ game'.last.op = "GameBoard.makeMove" =>
              LET i == game'.last.index
              IN  IF Cell(game.board, i) # NullCell
                  THEN /\ game'.last.ret = "false"
                       /\ game'.board = game.board
                  ELSE /\ game'.last.ret = "true"
                       /\ Cell(game'.board, i) = game'.last.symbol
                       /\ \A j \in Indices \ {i} : Cell(game'.board, j) = Cell(game.board, j)
        /\ game'.last.op # "Game.restartGame" =>
              \A j \in Indices :
                  Cell(game.board, j) # NullCell => Cell(game'.board, j) = Cell(game.board, j)
      ]_vars

\* makeMove has been refused on an occupied cell
C24_Witness ==
    /\ game.last.op = "GameBoard.makeMove"
    /\ game.last.ret = "false"
    /\ Cell(game.board, game.last.index) # NullCell
    /\ Cell(game.board, game.last.index) # game.last.symbol

Count2(board, symbol) == Cardinality({i \in DOMAIN board : board[i] = symbol})

\* the boards of finished games, and the empty board: X has moved as often as
\* O or once more, and checkWinner names a winner or a tie
FinishedBoards ==
    {b \in AllBoards :
        /\ Count2(b, "X") - Count2(b, "O") \in {0, 1}
        /\ checkWinner(b) # NullCell \/ b = EmptyBoard}

\* Game objects as a finished game leaves them: winner and gameOver set from the
\* board as makeMove sets them on the last move
GameStates ==
    {[NewGame EXCEPT !.board = b,
                     !.winner = checkWinner(b),
                     !.gameOver = checkWinner(b) # NullCell,
                     !.currentPlayerIndex = i] :
        b \in FinishedBoards, i \in {0, 1}}

NextGameOver == (\E index \in Indices : GameMakeMove(index)) \/ RestartGame

SpecGameOver == game \in GameStates /\ AtRest("game") /\ [][NextGameOver]_vars

\* C25: while gameOver is true, Game.makeMove(index) returns false and leaves
\* board, currentPlayerIndex, winner and gameOver as they are; restartGame sets
\* every cell to null, currentPlayerIndex to 0, winner to null and gameOver to
\* false.
C25_GameOverRefusesMoves ==
    [][ /\ (game.gameOver /\ game'.last.op = "Game.makeMove") =>
              /\ game'.last.ret = "false"
              /\ ~game'.last.err
              /\ game'.board = game.board
              /\ game'.currentPlayerIndex = game.currentPlayerIndex
              /\ game'.winner = game.winner
              /\ game'.gameOver
        /\ game'.last.op = "Game.restartGame" =>
              /\ game'.board = EmptyBoard
              /\ game'.currentPlayerIndex = 0
              /\ game'.winner = NullCell
              /\ ~game'.gameOver
      ]_vars

\* a move has been refused on a game that X has won
C25_Witness ==
    /\ game.gameOver
    /\ game.winner = "X"
    /\ game.last.op = "Game.makeMove"
    /\ game.last.ret = "false"

----------------------------------------------------------------------------
(* Properties of the ShoppingCart.                                         *)

NextCart ==
    \/ CartAddItem
    \/ CartRemoveItem
    \/ CartGetTotalCost
    \/ CartGetCartItems
    \/ CartCallerPush
    \/ CartCallerPop
    \/ CartCallerReverse

SpecCart == cart = ShoppingCart /\ AtRest("cart") /\ [][NextCart]_vars

\* the operations a caller applies to an array it holds
CallerOps == {"push", "pop", "reverse"}

\* C21: a step in which the caller adds to, removes from or reorders the array
\* getCartItems returned leaves the cart's items (what getCartItems returns
\* next) and the value getTotalCost returns as they were.
C21_CopyIsolated ==
    [][cart'.last.op \in CallerOps =>
          /\ cart'.arrays[1] = cart.arrays[1]
          /\ getTotalCost(cart') = getTotalCost(cart)]_vars

\* the caller changed a returned array of a cart that holds items
C21_Witness ==
    /\ cart.last.op \in CallerOps
    /\ cart.arrays[1] # <<>>
    /\ cart.arrays[cart.held] # cart.arrays[1]

\* the prices of the items, added up from 0 in array order
RECURSIVE SumPrices(_)
SumPrices(arr) ==
    IF arr = <<>> THEN Zero
    ELSE NumAdd(SumPrices(SubSeq(arr, 1, Len(arr) - 1)), arr[Len(arr)].price)

\* C27: getTotalCost() is the sum of the prices of the items of the cart, and 0
\* when the cart is empty.
C27_TotalIsSum == getTotalCost(cart) = SumPrices(cart.arrays[1])

----------------------------------------------------------------------------
(* Properties of the prototype chain example.                              *)

NextChain == ChainSetProto \/ ChainRead \/ ChainGetIntro

SpecChain == pchain = ChainStart /\ AtRest("pchain") /\ [][NextChain]_vars

\* the lines a statement added to the console
LinesAdded == SubSeq(pchain'.console, Len(pchain.console) + 1, Len(pchain'.console))

----------------------------------------------------------------------------
(* Properties of the Employee management example.                          *)

NextEmp == EmpLog \/ EmpPromote \/ EmpToggleActive

SpecEmp == emps = EmpStart /\ AtRest("emps") /\ [][NextEmp]_vars

\* the example: log, emp1.promote(), emp2.toggleActive(), log
EmpExample ==
    <<Stmt("log", ""), Stmt("promote", "emp1"), Stmt("toggleActive", "emp2"), Stmt("log", "")>>

\* C23: when the employees are logged, emp1.promote() and emp2.toggleActive()
\* are called and the employees are logged again, the emp3 of the second log
\* differs from the emp3 of the first.
C23_Emp3Updated ==
    emps.script = EmpExample => emps.logged[2]["emp3"] # emps.logged[1]["emp3"]

----------------------------------------------------------------------------
(* Properties of the guarded install of bind.                              *)

NextFproto == FprotoPolyfill \/ FprotoIndexJs \/ FprotoCurrying

SpecFproto == fproto \in FprotoInits /\ AtRest("fproto") /\ [][NextFproto]_vars

\* C26: a run of the README's script writes Function.prototype.bind only when
\* there was none, and then with the README's function; a bind that was there
\* is left exactly as it was, and so is every other property.
C26_InstalledOnlyWhenMissing ==
    [][fproto'.ran = Append(fproto.ran, "Reademe.md") =>
          /\ fproto.bind # Undefined => fproto'.bind = fproto.bind
          /\ fproto.bind = Undefined => fproto'.bind = Method("README bind")
          /\ fproto'.myBind = fproto.myBind]_vars

\* the script ran where the engine had its own bind
C26_Witness ==
    /\ fproto.ran # <<>>
    /\ fproto.ran[Len(fproto.ran)] = "Reademe.md"
    /\ fproto.bind = Method("native bind")

====
